---- MODULE Spec2Model ----
(***************************************************************************)
(* Verification model of the routeweaver daemon's per-peer message         *)
(* pipeline: the inbound MessageAssembler (channel/assembler.rs) and the   *)
(* outbound MessageDisassembler (channel/disassembler.rs).                 *)
(*                                                                         *)
(* Byte vectors (Vec<u8>) are kept exactly, in run-length form: a vector   *)
(* is a sequence of runs <<kind, src, off, n>>, n > 0.  A run of kind      *)
(* "byte" stands for n bytes all equal to src (off is 0).  A run of any    *)
(* other kind stands for the n bytes off..off+n-1 of the byte stream that  *)
(* kind and src name (the LZ4 block of a payload).  Vectors are kept       *)
(* normalised (adjacent runs that continue each other are merged), so      *)
(* equal vectors are equal values.                                         *)
(***************************************************************************)
EXTENDS Integers, Sequences, FiniteSets, TLC

(***************************************************************************)
(* Program constants.                                                      *)
(***************************************************************************)
MAX_PACKET_PAYLOAD_SIZE == 63 * 1024
MARGIN_OF_OUT_OF_ORDER_ALLOWED == 16
MAX_BODIES_PER_MESSAGE == 512
\* MessageId = u16: ids and body indices are 16 bit wide
U16 == 65536

None == <<>>
Some(x) == <<x>>
IsSome(o) == o # <<>>
Unwrap(o) == o[1]

(***************************************************************************)
(* Vec<u8> in run-length form: runs <<kind, src, off, n>>.                 *)
(***************************************************************************)
ByteRun(b, n) == << "byte", b, 0, n >>

StreamRun(kind, src, off, n) == << kind, src, off, n >>

RunLen(r) == r[4]

RECURSIVE VecLen(_)
VecLen(v) == IF v = <<>> THEN 0 ELSE RunLen(Head(v)) + VecLen(Tail(v))

\* vec![b; n]
Fill(b, n) == IF n = 0 THEN <<>> ELSE << ByteRun(b, n) >>

\* does run s continue run r (so that the two are one run)?
Continues(r, s) ==
    /\ r[1] = s[1]
    /\ r[2] = s[2]
    /\ (r[1] = "byte" \/ r[3] + r[4] = s[3])

\* concatenation, normalised
Cat(a, b) ==
    IF a = <<>> THEN b
    ELSE IF b = <<>> THEN a
    ELSE LET r == a[Len(a)]
             s == b[1]
         IN IF Continues(r, s)
            THEN SubSeq(a, 1, Len(a) - 1) \o << << r[1], r[2], r[3], r[4] + s[4] >> >> \o Tail(b)
            ELSE a \o b

\* the first k bytes (the whole vector when it is shorter)
RECURSIVE Take(_, _)
Take(v, k) ==
    IF k = 0 \/ v = <<>> THEN <<>>
    ELSE LET h == Head(v)
         IN IF h[4] <= k THEN <<h>> \o Take(Tail(v), k - h[4])
            ELSE << << h[1], h[2], h[3], k >> >>

\* all but the first k bytes
RECURSIVE Drop(_, _)
Drop(v, k) ==
    IF k = 0 \/ v = <<>> THEN v
    ELSE LET h == Head(v)
         IN IF h[4] <= k THEN Drop(Tail(v), k - h[4])
            ELSE << << h[1], h[2], IF h[1] = "byte" THEN 0 ELSE h[3] + k, h[4] - k >> >>
                 \o Tail(v)

\* Vec::resize(k, 0): truncate, or extend with zero bytes
Resize(v, k) ==
    IF k <= VecLen(v) THEN Take(v, k) ELSE Cat(v, Fill(0, k - VecLen(v)))

\* the length of chunks_mut(MAX_PACKET_PAYLOAD_SIZE).nth(index); -1 when there is
\* no such chunk (nth returns None)
ChunkLen(v, index) ==
    LET start == index * MAX_PACKET_PAYLOAD_SIZE
    IN IF start >= VecLen(v) THEN -1
       ELSE IF VecLen(v) - start < MAX_PACKET_PAYLOAD_SIZE THEN VecLen(v) - start
       ELSE MAX_PACKET_PAYLOAD_SIZE

\* chunk.copy_from_slice(data) on chunk number index (the lengths are equal)
CopyIntoChunk(v, index, data) ==
    LET start == index * MAX_PACKET_PAYLOAD_SIZE
    IN Cat(Cat(Take(v, start), data), Drop(v, start + VecLen(data)))

(***************************************************************************)
(* LZ4 (lz4_flex).  The block of a payload is a byte stream of its own,    *)
(* named by the payload; only its length and what it decompresses to       *)
(* matter here.                                                            *)
(***************************************************************************)
\* a payload that ends in bytes without any repetition LZ4 could use (a "rand"
\* stream)
Incompressible(bytes) == bytes[Len(bytes)][1] = "rand"

\* the length of the LZ4 block of a payload.  An incompressible payload of 15
\* bytes or more is one sequence of literals: a token, one more length byte per
\* 255 literals past 14, and the literals.  Otherwise the payload ends in a long
\* run of one byte after fewer than 15 other bytes: a token, the literals up to
\* and including the first byte of the run, a two byte offset, one more length
\* byte per 255 bytes of match past 18, then a token and the last five bytes as
\* literals
Lz4BlockLen(bytes) ==
    IF Incompressible(bytes)
    THEN 1 + ((VecLen(bytes) - 15) \div 255 + 1) + VecLen(bytes)
    ELSE
    LET tail == RunLen(bytes[Len(bytes)])
        literals == VecLen(bytes) - tail + 1
        match == tail - 1 - 5
    IN 1 + literals + 2 + (IF match >= 19 THEN (match - 19) \div 255 + 1 ELSE 0) + 1 + 5

\* lz4_flex::compress_prepend_size: four bytes of length, then the LZ4 block
Lz4CompressPrependSize(bytes) ==
    << StreamRun("lz4", bytes, 0, 4 + Lz4BlockLen(bytes)) >>

\* lz4_flex::decompress_size_prepended: the whole of a block yields its payload;
\* anything else (a part of a block, bytes that are no block, fewer than the four
\* bytes of the length) is an error
Lz4DecompressSizePrepended(v) ==
    IF /\ Len(v) = 1
       /\ v[1][1] = "lz4"
       /\ v = Lz4CompressPrependSize(v[1][2])
    THEN Some(v[1][2])
    ELSE None

(***************************************************************************)
(* MessageSegment payloads (transport/packet.rs): Head and Body, as one    *)
(* record shape.                                                           *)
(***************************************************************************)
HeadSegment(id, body_count, compression) ==
    [ kind |-> "head", id |-> id, body_count |-> body_count,
      compression |-> compression, index |-> 0, data |-> <<>> ]

BodySegment(id, index, data) ==
    [ kind |-> "body", id |-> id, body_count |-> 0,
      compression |-> FALSE, index |-> index, data |-> data ]

(***************************************************************************)
(* MessageAssembler (channel/assembler.rs).                                *)
(*                                                                         *)
(* An assembler value is [current_message_id, pending_messages]; the ring  *)
(* buffer pending_messages is the sequence of its slots from the read      *)
(* pointer on (slot 1 is the oldest element).  head() and body() yield     *)
(* [asm, outcome]: "stored" (the entry was written), "dropped" (the call   *)
(* took an early return that empties the slot), "ignored" (no slot) or     *)
(* "panic" (the call unwinds; the state is the one before the call).       *)
(***************************************************************************)
PendingMessageDefault ==
    [ head_arrived |-> FALSE,
      compression |-> FALSE,
      max_index_seen |-> 0,
      total_bodies |-> None,
      final_partial_body_length |-> None,
      committed_bodies |-> [i \in 0..(MAX_BODIES_PER_MESSAGE - 1) |-> FALSE],
      bodies |-> <<>> ]

MessageAssemblerDefault ==
    [ current_message_id |-> 0,
      pending_messages |-> [i \in 1..MARGIN_OF_OUT_OF_ORDER_ALLOWED |-> None] ]

\* message_id.wrapping_sub(self.current_message_id)
EntryIndex(asm, message_id) == (message_id - asm.current_message_id) % U16

\* pending_messages.get_mut(index): the ring buffer reduces the index modulo
\* its length (RingBuffer::get/get_mut "wrap around"; only an empty buffer
\* yields None), so every index names a slot.  The result is the position in
\* the slot sequence, 0 for None.
RingGet(ring, index) ==
    IF Len(ring) = 0 THEN 0 ELSE (index % Len(ring)) + 1

\* mutant: rejecting a segment throws away everything that is pending
TakeSlotClearsRing(asm, pos) ==
    [asm EXCEPT !.pending_messages = [i \in 1..Len(@) |-> None]]

\* self.pending_messages[index].take()
TakeSlot(asm, pos) ==
    [asm EXCEPT !.pending_messages[pos] = None]

SetSlot(asm, pos, entry) ==
    [asm EXCEPT !.pending_messages[pos] = Some(entry)]

\* entry.get_or_insert_with(PendingMessage::default)
GetOrInsertDefault(slot) == IF IsSome(slot) THEN Unwrap(slot) ELSE PendingMessageDefault

\* final_partial_body_length.map(|l| MAX - l).unwrap_or(0)
PartialShortfall(entry) ==
    IF IsSome(entry.final_partial_body_length)
    THEN MAX_PACKET_PAYLOAD_SIZE - Unwrap(entry.final_partial_body_length)
    ELSE 0

HeadCalculatedBodiesSize(entry, body_count) ==
    body_count * MAX_PACKET_PAYLOAD_SIZE - PartialShortfall(entry)

AsmHead(asm, message_id, body_count, compression) ==
    LET pos == RingGet(asm.pending_messages, EntryIndex(asm, message_id))
    IN IF pos = 0 THEN [asm |-> asm, outcome |-> "ignored"]
       ELSE
       LET entry == GetOrInsertDefault(asm.pending_messages[pos])
           calculated_bodies_size == HeadCalculatedBodiesSize(entry, body_count)
       IN IF VecLen(entry.bodies) > calculated_bodies_size
          THEN [asm |-> TakeSlot(asm, pos), outcome |-> "dropped"]
          ELSE [asm |-> SetSlot(asm, pos,
                          [entry EXCEPT !.bodies = Resize(entry.bodies, calculated_bodies_size),
                                        !.total_bodies = Some(body_count),
                                        !.compression = compression,
                                        !.head_arrived = TRUE]),
                outcome |-> "stored"]

\* total_bodies.get_or_insert(NonZero::new(index + 1).unwrap())
GetOrInsertTotal(entry, index) ==
    IF IsSome(entry.total_bodies) THEN entry
    ELSE [entry EXCEPT !.total_bodies = Some(index + 1)]

\* index + 1 overflows u16 for index = 65535: an overflow panic in a debug build,
\* NonZero::new(0).unwrap() in a release build; the argument is evaluated even
\* when total_bodies is already set
IndexPlusOnePanics(index) == index + 1 >= U16

\* lines 106-119: a body shorter than MAX is the final one
BodyPartialStep(entry, index, data) ==
    GetOrInsertTotal([entry EXCEPT !.final_partial_body_length = Some(VecLen(data))], index)

\* lines 121-125
BodyLastIndexStep(entry, index) ==
    IF index = MAX_BODIES_PER_MESSAGE - 1 THEN GetOrInsertTotal(entry, index) ELSE entry

\* mutant: the short final body is not taken into account
BodyCalculatedBodiesSizeAllFull(entry) ==
    (IF IsSome(entry.total_bodies) THEN Unwrap(entry.total_bodies)
     ELSE entry.max_index_seen + 1) * MAX_PACKET_PAYLOAD_SIZE

\* lines 139-147
BodyCalculatedBodiesSize(entry) ==
    (IF IsSome(entry.total_bodies) THEN Unwrap(entry.total_bodies)
     ELSE entry.max_index_seen + 1) * MAX_PACKET_PAYLOAD_SIZE
    - PartialShortfall(entry)

\* committed_bodies[index] = true indexes a [bool; MAX_BODIES_PER_MESSAGE]
CommitPanics(index) == index >= MAX_BODIES_PER_MESSAGE

AsmBody(asm, message_id, index, data) ==
    LET pos == RingGet(asm.pending_messages, EntryIndex(asm, message_id))
        drop == [asm |-> TakeSlot(asm, pos), outcome |-> "dropped"]
        crash == [asm |-> asm, outcome |-> "panic"]
    IN IF pos = 0 THEN [asm |-> asm, outcome |-> "ignored"]
       ELSE
       LET entry0 == GetOrInsertDefault(asm.pending_messages[pos])
           partial == VecLen(data) < MAX_PACKET_PAYLOAD_SIZE
       IN IF data = <<>> THEN drop
          ELSE IF VecLen(data) > MAX_PACKET_PAYLOAD_SIZE THEN drop
          ELSE IF /\ partial
                  /\ IsSome(entry0.final_partial_body_length)
                  /\ Unwrap(entry0.final_partial_body_length) # VecLen(data)
               THEN drop
          ELSE IF partial /\ IndexPlusOnePanics(index) THEN crash
          ELSE
          LET entry1 == IF partial THEN BodyPartialStep(entry0, index, data) ELSE entry0
              entry2 == BodyLastIndexStep(entry1, index)
          IN IF IsSome(entry2.total_bodies) /\ Unwrap(entry2.total_bodies) <= index
             THEN drop
             ELSE
             LET entry3 == [entry2 EXCEPT !.max_index_seen =
                                IF index > entry2.max_index_seen THEN index
                                ELSE entry2.max_index_seen]
                 resized == Resize(entry3.bodies, BodyCalculatedBodiesSize(entry3))
                 chunk_len == ChunkLen(resized, index)
             IN IF chunk_len = -1 THEN crash
                ELSE IF chunk_len # VecLen(data) THEN drop
                ELSE IF CommitPanics(index) THEN crash
                ELSE [asm |-> SetSlot(asm, pos,
                                [entry3 EXCEPT !.bodies = CopyIntoChunk(resized, index, data),
                                               !.committed_bodies[index] = TRUE]),
                      outcome |-> "stored"]

\* committed_bodies.iter().take(total_bodies).all(|b| *b): take stops at the
\* end of the array
AllCommitted(entry) ==
    LET total == Unwrap(entry.total_bodies)
        upto == IF total < MAX_BODIES_PER_MESSAGE THEN total ELSE MAX_BODIES_PER_MESSAGE
    IN \A i \in 0..(upto - 1) : entry.committed_bodies[i]

AsmIsFinished(asm, message_id) ==
    LET pos == RingGet(asm.pending_messages, EntryIndex(asm, message_id))
    IN /\ pos # 0
       /\ IsSome(asm.pending_messages[pos])
       /\ Unwrap(asm.pending_messages[pos]).head_arrived
       /\ AllCommitted(Unwrap(asm.pending_messages[pos]))

AsmNext(asm) ==
    IF AsmIsFinished(asm, asm.current_message_id)
    THEN LET entry == Unwrap(Head(asm.pending_messages))
             ring == Tail(asm.pending_messages) \o <<None>>
             bodies == IF entry.compression
                       THEN Lz4DecompressSizePrepended(entry.bodies)
                       ELSE Some(entry.bodies)
         IN IF bodies = None
            THEN [asm |-> [asm EXCEPT !.pending_messages = ring], out |-> None]
            ELSE [asm |-> [asm EXCEPT !.pending_messages = ring,
                                      !.current_message_id = (@ + 1) % U16],
                  out |-> Some(<<Unwrap(bodies), asm.current_message_id>>)]
    ELSE [asm |-> asm, out |-> None]

(***************************************************************************)
(* MessageDisassembler (channel/disassembler.rs).                          *)
(*                                                                         *)
(* A disassembler value is [packets, next_message_id, highest_message_id]; *)
(* packets is a function from the ids that have a tracker to the trackers. *)
(* bodies_confirmed is the set of the indices its ranges cover.            *)
(***************************************************************************)
MessageDisassemblerDefault ==
    [ packets |-> << >>,
      next_message_id |-> 0,
      highest_message_id |-> 0 ]

\* bincode's variable-length integer encoding of an unsigned number
VarInt(u) ==
    IF u < 251 THEN Fill(u, 1)
    ELSE IF u < U16 THEN Cat(Cat(Fill(251, 1), Fill(u % 256, 1)), Fill(u \div 256, 1))
    ELSE Cat(Cat(Cat(Cat(Fill(252, 1), Fill(u % 256, 1)), Fill((u \div 256) % 256, 1)),
                 Fill((u \div 65536) % 256, 1)), Fill(u \div 16777216, 1))

\* bincode::serde::encode_to_vec(&message, standard()): the variant's number,
\* then its fields.  The messages of the model: RequestPeerSuggestion,
\* ConnectionClose and ConnectionData whose data is len times the byte fill or,
\* with stream set, len bytes without repetition (the stream "rand" number fill).
Encode(message) ==
    IF message.variant = "RequestPeerSuggestion" THEN VarInt(0)
    ELSE IF message.variant = "ConnectionClose"
    THEN Cat(VarInt(6), VarInt(message.connection_id))
    ELSE Cat(Cat(Cat(VarInt(7), VarInt(message.connection_id)), VarInt(message.len)),
             IF message.stream
             THEN << StreamRun("rand", message.fill, 0, message.len) >>
             ELSE Fill(message.fill, message.len))

RequestPeerSuggestion ==
    [ variant |-> "RequestPeerSuggestion", connection_id |-> 0, len |-> 0, fill |-> 0,
      stream |-> FALSE ]

ConnectionClose(connection_id) ==
    [ variant |-> "ConnectionClose", connection_id |-> connection_id, len |-> 0, fill |-> 0,
      stream |-> FALSE ]

ConnectionData(connection_id, fill, len) ==
    [ variant |-> "ConnectionData", connection_id |-> connection_id, len |-> len, fill |-> fill,
      stream |-> FALSE ]

\* ConnectionData whose data is len bytes of the incompressible stream number seed
ConnectionDataStream(connection_id, seed, len) ==
    [ variant |-> "ConnectionData", connection_id |-> connection_id, len |-> len, fill |-> seed,
      stream |-> TRUE ]

\* the byte values that occur in the byte runs of a vector
ByteValues(v) == { v[i][2] : i \in { j \in 1..Len(v) : v[j][1] = "byte" } }

\* the number of different byte values in a vector; an incompressible stream
\* takes every value it has room for, all equally often
DistinctBytes(v) ==
    IF \E i \in 1..Len(v) : v[i][1] = "rand"
    THEN (IF VecLen(v) < 256 THEN VecLen(v) ELSE 256)
    ELSE Cardinality(ByteValues(v))

\* should_message_be_compressed: never for 20 bytes or fewer; otherwise iff the
\* Shannon entropy H of the byte histogram is at most half of log2(len).  With k
\* different byte values H <= log2(k), so k * k <= len gives TRUE (always so from
\* 65536 bytes on); the messages of the model with k * k > len are
\* incompressible streams, whose H is log2(k) but for the few bytes before the
\* data, which gives FALSE.
ShouldMessageBeCompressed(bytes) ==
    IF VecLen(bytes) <= 20 THEN FALSE
    ELSE DistinctBytes(bytes) * DistinctBytes(bytes) <= VecLen(bytes)

\* usize::div_ceil
DivCeil(n, d) == (n + d - 1) \div d

\* NonZero::new(body_count.try_into().unwrap()).unwrap()
BodyCountPanics(body_count) == body_count = 0 \/ body_count >= U16

\* HashMap::insert
MapInsert(map, key, value) ==
    [k \in DOMAIN map \cup {key} |-> IF k = key THEN value ELSE map[k]]

\* HashMap::remove
MapRemove(map, key) == [k \in DOMAIN map \ {key} |-> map[k]]

\* message(): yields the disassembler and the returned id
DisMessage(dis, message) ==
    LET encoded == Encode(message)
        compression == ShouldMessageBeCompressed(encoded)
        encoded_payload == IF compression THEN Lz4CompressPrependSize(encoded) ELSE encoded
        body_count == DivCeil(VecLen(encoded_payload), MAX_PACKET_PAYLOAD_SIZE)
        message_id == (dis.highest_message_id + 1) % U16
    IN [ dis |-> [dis EXCEPT !.packets =
                    MapInsert(@, message_id,
                        [ payload |-> encoded_payload,
                          compression |-> compression,
                          head_confirmed |-> FALSE,
                          body_count |-> body_count,
                          bodies_confirmed |-> {} ])],
         id |-> message_id,
         panic |-> BodyCountPanics(body_count) ]

DisHeadStatus(dis, message_id, head_status) ==
    IF message_id \in DOMAIN dis.packets
    THEN [dis EXCEPT !.packets[message_id].head_confirmed = head_status]
    ELSE dis

\* the indices a set of inclusive ranges <<lo, hi>> covers
RangesCover(ranges) == UNION { r[1]..r[2] : r \in ranges }

\* mutant: the ranges of a status update flip the confirmations
DisBodyStatusFlips(dis, message_id, body_status) ==
    IF message_id \in DOMAIN dis.packets
    THEN [dis EXCEPT !.packets[message_id].bodies_confirmed =
                        (@ \ RangesCover(body_status)) \cup (RangesCover(body_status) \ @)]
    ELSE dis

DisBodyStatus(dis, message_id, body_status) ==
    IF message_id \in DOMAIN dis.packets
    THEN [dis EXCEPT !.packets[message_id].bodies_confirmed = RangesCover(body_status)]
    ELSE dis

DisIsMessageConfirmed(dis, message_id) ==
    /\ message_id \in DOMAIN dis.packets
    /\ dis.packets[message_id].head_confirmed
    /\ \A index \in 0..(dis.packets[message_id].body_count - 1) :
          index \in dis.packets[message_id].bodies_confirmed

\* payload.iter().skip(index * MAX).take(MAX).copied().collect()
BodyData(payload, index) ==
    Take(Drop(payload, index * MAX_PACKET_PAYLOAD_SIZE), MAX_PACKET_PAYLOAD_SIZE)

\* the segments payloads() pushes for a tracker, in order
TrackerPayloads(message_id, tracker) ==
    (IF tracker.head_confirmed THEN << >>
     ELSE << HeadSegment(message_id, tracker.body_count, tracker.compression) >>)
    \o SelectSeq([i \in 1..tracker.body_count |->
                    BodySegment(message_id, i - 1, BodyData(tracker.payload, i - 1))],
                 LAMBDA seg : seg.index \notin tracker.bodies_confirmed)

\* payloads(): yields the disassembler and Some(<<id, segments>>) or None
DisPayloads(dis) ==
    IF dis.next_message_id \in DOMAIN dis.packets
    THEN LET payloads == TrackerPayloads(dis.next_message_id,
                                         dis.packets[dis.next_message_id])
         IN IF payloads = << >>
            THEN [ dis |-> [dis EXCEPT !.packets = MapRemove(@, dis.next_message_id),
                                       !.next_message_id = (@ + 1) % U16],
                   out |-> None ]
            ELSE [ dis |-> dis, out |-> Some(<< dis.next_message_id, payloads >>) ]
    ELSE [ dis |-> dis, out |-> None ]

(***************************************************************************)
(* The assembler as a state machine: the channel reader task               *)
(* (channel/reader.rs) calls head() or body() for each segment it receives *)
(* and then drains next_message().  The segments come from the remote and  *)
(* are adversarial.                                                        *)
(***************************************************************************)
VARIABLES
    current_message_id,   \* MessageAssembler.current_message_id
    pending_messages,     \* MessageAssembler.pending_messages, from the read pointer on
    asm_panicked,         \* a head()/body() call has unwound: the reader task is gone
    pool,                 \* segment -> number of copies of it still to arrive
    calls,                \* number of head()/body() calls made so far
    last_call,            \* the latest call and what it returned
    delivered,            \* history: what the successful next() calls returned, in order
    slot_origin,          \* history: per slot, the message ids whose segments are in it
    dropped_calls,        \* history: <<id, kind>> of the calls that emptied a slot
    sent_payload          \* the payload the script's sender split into the bodies

asmVars == << current_message_id, pending_messages, asm_panicked, pool, calls,
              last_call, delivered, slot_origin, dropped_calls, sent_payload >>

\* The disassembler as a state machine: the channel writer task
\* (channel/writer.rs) calls message() for each write request, head_status()
\* and body_status() for each status update, and payloads() when it sends.
VARIABLES
    packets,              \* MessageDisassembler.packets
    next_message_id,      \* MessageDisassembler.next_message_id
    highest_message_id,   \* MessageDisassembler.highest_message_id
    enqueued,             \* history: the messages passed to message(), in order
    returned_ids,         \* history: the ids message() returned, in order
    status_seen,          \* history: head_status() or body_status() has been called
    dis_last              \* the latest disassembler call and what it returned

disVars == << packets, next_message_id, highest_message_id, enqueued, returned_ids,
              status_seen, dis_last >>

\* The transport layer as a state machine: the shared maps of ServerState and
\* the tasks that work on them for one peer connection.
VARIABLES
    handshake_tracker,    \* ServerState.handshake_tracker: key -> handshake state
    transport_tracker,    \* ServerState.transport_tracker: key -> transport state
    promoting,            \* handshake_continue between removing a finished handshake
                          \* and the upsert of its transport state
    conn,                 \* the task that reads the peer connection
    channel_reader,       \* the channel_read_message task
    last_step             \* the latest transport step and what it did

transVars == << handshake_tracker, transport_tracker, promoting, conn, channel_reader,
                last_step >>

\* The router task (transport/router.rs) with what it shares with the
\* connection tasks.
VARIABLES
    router,               \* packet_router's locals: the request in hand, the counters
    notifications,        \* notification_new_peer_connection, as the router's receiver sees it
    request_write_packet, \* ServerState.request_write_packet: peer -> state of its channel
    route_log             \* the latest iteration of the selection loop and what it did

routerVars == << router, notifications, request_write_packet, route_log >>

\* A ScoreKeeper (transport/router.rs) and the latest result of best() on it.
VARIABLES
    score_keeper,         \* ScoreKeeper.0: peer -> its recorded events, oldest first
    best_out              \* what best() returned, None before the call

scoreVars == << score_keeper, best_out >>

\* The IPC socket (ipc/socket.rs).
VARIABLES
    application_tracker,  \* ApplicationTracker: the application ids with an entry
    listeners,            \* the connection_listener tasks spawned and not yet run
    claims                \* history: <<client, id>> of the accepted Listen requests of
                          \* the clients still connected

ipcVars == << application_tracker, listeners, claims >>

\* Connection setup (transport/setup_connection.rs).
VARIABLES
    peer_tracker,         \* PeerTracker.connected
    finalizing,           \* per calling task, where it is in finalize_peer_connection
    sessions,             \* per peer, the number of session tasks running
    anonymous             \* ServerState.anonymous

setupVars == << peer_tracker, finalizing, sessions, anonymous >>

\* The scan of handshake_continue (transport/handshake_continue.rs).
VARIABLES
    scanned               \* the keys the while loop has visited since first_entry_async

driverVars == << scanned >>

\* A framed stream and its decoder (transport/driver/mod.rs).
VARIABLES
    src,                  \* decode's buffer: the bytes read from the stream and not consumed
    stream,               \* the bytes of the stream that have not arrived yet
    decoded,              \* history: the results of the decode calls so far
    decode_last           \* history: the latest decode call

framingVars == << src, stream, decoded, decode_last >>

\* The channel writer task (channel/writer.rs).
VARIABLES
    message_disassemblers, \* channel_write_message's local: destination -> disassembler
    notify_callbacks,      \* channel_write_message's local: message id -> notify_sent
    callbacks,             \* history: per write request, what became of its notify_sent
    writer_last            \* history: the latest iteration of the writer's loop

writerVars == << message_disassemblers, notify_callbacks, callbacks, writer_last >>

\* The inbound data channels of connections (channel/handle_message.rs).
VARIABLES
    request_receive_connection_data, \* ServerState's map: connection id -> data channel
    handled                          \* history: the latest handle_message call

connectionVars == << request_receive_connection_data, handled >>

coreVars == << asmVars, disVars, transVars, routerVars, scoreVars, ipcVars, setupVars >>

vars == << coreVars, driverVars, framingVars, writerVars, connectionVars >>

\* the variables of the components above the transport, channel and IPC cores
laterVars == << driverVars, framingVars, writerVars, connectionVars >>

\* what the steps of one component leave alone
asmFrame == << disVars, transVars, routerVars, scoreVars, ipcVars, setupVars, laterVars >>
disFrame == << asmVars, transVars, routerVars, scoreVars, ipcVars, setupVars, laterVars >>
transFrame == << asmVars, disVars, routerVars, scoreVars, ipcVars, setupVars, laterVars >>

routerFrame == << asmVars, disVars, transVars, scoreVars, ipcVars, setupVars, laterVars >>

scoreFrame == << asmVars, disVars, transVars, routerVars, ipcVars, setupVars, laterVars >>

ipcFrame == << asmVars, disVars, transVars, routerVars, scoreVars, setupVars, laterVars >>

setupFrame == << asmVars, disVars, transVars, scoreVars, ipcVars, laterVars >>

\* a step of the scan leaves alone all but the transport layer and its own position
driverFrame ==
    << asmVars, disVars, routerVars, scoreVars, ipcVars, setupVars, framingVars, writerVars,
       connectionVars >>

framingFrame == << coreVars, driverVars, writerVars, connectionVars >>

writerFrame == << coreVars, driverVars, framingVars, connectionVars >>

connectionFrame == << coreVars, driverVars, framingVars, writerVars >>

Asm == [ current_message_id |-> current_message_id,
         pending_messages |-> pending_messages ]

\* the match on segment.payload in channel_read_message
AsmApply(asm, seg) ==
    IF seg.kind = "head"
    THEN AsmHead(asm, seg.id, seg.body_count, seg.compression)
    ELSE AsmBody(asm, seg.id, seg.index, seg.data)

\* the slot a call for message_id addresses
SlotOf(asm, message_id) == RingGet(asm.pending_messages, EntryIndex(asm, message_id))

Receive(seg) ==
    LET r == AsmApply(Asm, seg)
        pos == SlotOf(Asm, seg.id)
    IN /\ current_message_id' = r.asm.current_message_id
       /\ pending_messages' = r.asm.pending_messages
       /\ asm_panicked' = (r.outcome = "panic")
       /\ calls' = calls + 1
       /\ last_call' = [ op |-> seg.kind, after |-> last_call.op,
                         id |-> seg.id, index |-> seg.index,
                         outcome |-> r.outcome, out |-> None ]
       /\ slot_origin' =
            IF pos = 0 \/ r.outcome = "panic" THEN slot_origin
            ELSE IF r.outcome = "dropped" THEN [slot_origin EXCEPT ![pos] = {}]
            ELSE [slot_origin EXCEPT ![pos] = @ \cup {seg.id}]
       /\ dropped_calls' = IF r.outcome = "dropped" THEN dropped_calls \cup { <<seg.id, seg.kind>> }
                         ELSE dropped_calls
       /\ UNCHANGED << delivered, sent_payload, asmFrame >>

\* bound: the number of head()/body() calls an adversarial remote makes
MaxCalls == 3

\* an arbitrary segment arrives
Inject(segs) ==
    /\ ~asm_panicked
    /\ calls < MaxCalls
    /\ \E seg \in segs :
         /\ Receive(seg)
         /\ UNCHANGED pool

\* a segment of the script arrives (each copy once, in any order)
Deliver ==
    /\ ~asm_panicked
    /\ \E seg \in DOMAIN pool :
         /\ pool[seg] > 0
         /\ pool' = [pool EXCEPT ![seg] = @ - 1]
         /\ Receive(seg)

\* the reader's "while let Some(..) = next_message()" step
CallNext ==
    /\ ~asm_panicked
    /\ LET r == AsmNext(Asm)
       IN /\ current_message_id' = r.asm.current_message_id
          /\ pending_messages' = r.asm.pending_messages
          /\ last_call' = [ op |-> "next", after |-> last_call.op,
                            id |-> current_message_id, index |-> 0,
                            outcome |-> IF IsSome(r.out) THEN "some" ELSE "none",
                            out |-> r.out ]
          /\ delivered' =
               IF IsSome(r.out)
               THEN Append(delivered, [ bodies |-> Unwrap(r.out)[1], id |-> Unwrap(r.out)[2],
                                        origin |-> slot_origin[1] ])
               ELSE delivered
          /\ slot_origin' =
               IF AsmIsFinished(Asm, current_message_id)
               THEN Tail(slot_origin) \o << {} >>
               ELSE slot_origin
          /\ UNCHANGED << asm_panicked, pool, calls, dropped_calls, sent_payload, asmFrame >>

NoCall == [ op |-> "none", after |-> "none", id |-> 0, index |-> 0, outcome |-> "none", out |-> None ]

\* the assembler asm with the given script to arrive
AsmInit(asm, script) ==
    /\ current_message_id = asm.current_message_id
    /\ pending_messages = asm.pending_messages
    /\ asm_panicked = FALSE
    /\ pool = script
    /\ calls = 0
    /\ last_call = NoCall
    /\ delivered = <<>>
    /\ slot_origin = [i \in 1..MARGIN_OF_OUT_OF_ORDER_ALLOWED |-> {}]
    /\ dropped_calls = {}

Dis == [ packets |-> packets,
         next_message_id |-> next_message_id,
         highest_message_id |-> highest_message_id ]

\* the record of a disassembler call: the method, its arguments, what it
\* returned, the disassembler before the call, and whether the call before it
\* was the same method with the same arguments
DisCall(op, message_id, head_status, body_status, out, before, repeated) ==
    [ op |-> op, id |-> message_id, head_status |-> head_status,
      body_status |-> body_status, out |-> out, before |-> before, repeated |-> repeated ]

NoDisCall == DisCall("none", 0, FALSE, {}, None, MessageDisassemblerDefault, FALSE)

\* the disassembler dis, nothing called yet
DisInit(dis) ==
    /\ packets = dis.packets
    /\ next_message_id = dis.next_message_id
    /\ highest_message_id = dis.highest_message_id
    /\ enqueued = << >>
    /\ returned_ids = << >>
    /\ status_seen = FALSE
    /\ dis_last = NoDisCall

SetDis(dis) ==
    /\ packets' = dis.packets
    /\ next_message_id' = dis.next_message_id
    /\ highest_message_id' = dis.highest_message_id

(***************************************************************************)
(* The transport layer (transport/reader.rs, handshake_continue.rs,        *)
(* setup_connection.rs).  Keys are names.  A Noise XX handshake state is   *)
(* [role, step, remote]: step counts the handshake messages written or     *)
(* read so far, remote is the static key the remote proved (from message 2 *)
(* for an initiator, message 3 for a responder; "" before).  A handshake   *)
(* message is [msg, static, valid]: its number, the static key of whoever  *)
(* made it, and whether it fits the session it is read into.  A sealed     *)
(* segment is [sealed_by, decodes]: whose session sealed it and whether    *)
(* the plaintext is an encoded MessageSegment.  The packet header (source, *)
(* destination) is whatever the sender wrote.  The maps are total over the *)
(* keys, None where a key has no entry.                                    *)
(***************************************************************************)
OwnKey == "self"

PeerKeys == { "A", "B" }

Keys == PeerKeys \cup { OwnKey }

HandshakeData(msg, static, valid) ==
    [ kind |-> "handshake", msg |-> msg, static |-> static, valid |-> valid,
      sealed_by |-> "", decodes |-> FALSE ]

SegmentData(sealed_by, decodes) ==
    [ kind |-> "segment", msg |-> 0, static |-> "", valid |-> FALSE,
      sealed_by |-> sealed_by, decodes |-> decodes ]

Packet(source, destination, data) ==
    [ source |-> source, destination |-> destination, data |-> data ]

\* what a remote can put on the wire
Packets ==
    { Packet(source, destination, data) :
        source \in Keys,
        destination \in { None } \cup { Some(key) : key \in Keys },
        data \in { HandshakeData(1, "", TRUE), HandshakeData(3, "", FALSE) }
                 \cup { HandshakeData(msg, static, TRUE) : msg \in { 2, 3 }, static \in PeerKeys }
                 \cup { SegmentData(key, decodes) : key \in PeerKeys, decodes \in BOOLEAN } }

\* create_handshake_initiator / create_handshake_responder
NewHandshake(role) == [ role |-> role, step |-> 0, remote |-> "" ]

\* HandshakeState::is_my_turn: the initiator writes messages 1 and 3, the
\* responder message 2
IsMyTurn(hs) == IF hs.role = "initiator" THEN hs.step % 2 = 0 ELSE hs.step % 2 = 1

\* HandshakeState::is_handshake_finished: XX has three messages
IsHandshakeFinished(hs) == hs.step = 3

\* HandshakeState::write_message
HsWrite(hs) == [hs EXCEPT !.step = @ + 1]

\* HandshakeState::read_message: Ok for the next message of this session
HsRead(hs, data) ==
    IF data.valid /\ data.msg = hs.step + 1 /\ ~IsMyTurn(hs) /\ ~IsHandshakeFinished(hs)
    THEN [ ok |-> TRUE,
           hs |-> [hs EXCEPT !.step = @ + 1,
                             !.remote = IF data.msg = 1 THEN @ ELSE data.static] ]
    ELSE [ ok |-> FALSE, hs |-> hs ]

\* the record of a transport step: the task, the key it worked on, whether the
\* packet it read had source == own key or destination == Some(source), and
\* what it did
Step(task, key, guarded, outcome) ==
    [ task |-> task, key |-> key, guarded |-> guarded, outcome |-> outcome,
      routed |-> None, holding |-> "" ]

\* the step awaited a send on a bounded channel while it held an entry guard
\* of this map
Holding(step, map) == [step EXCEPT !.holding = map]

\* the step sent a RequestRoutePacket for a packet with this destination
WithRoute(step, destination) == [step EXCEPT !.routed = Some(destination)]

\* mutant: only packets addressed to this node by key are handled locally
ForUsByKeyOnly(packet) == packet.destination = Some(OwnKey)

\* packet_reader lines 41-42: the packet is for this node
ForUs(packet) == packet.destination = Some(OwnKey) \/ packet.destination = None

\* lines 26 and 32 of packet_reader
Guarded(packet) ==
    packet.source = OwnKey \/ packet.destination = Some(packet.source)

\* handle_handshake on the entry packet_reader got or inserted: the trackers'
\* new handshake entry for the source, and the outcome
HandleHandshake(entry, data) ==
    IF IsMyTurn(entry) \/ IsHandshakeFinished(entry)
    THEN [ entry |-> Some(entry), outcome |-> "handshake_ignored" ]
    ELSE IF HsRead(entry, data).ok
    THEN [ entry |-> Some(HsRead(entry, data).hs), outcome |-> "handshake_read" ]
    ELSE [ entry |-> None, outcome |-> "handshake_removed" ]

\* one iteration of the loop of packet_reader on an Ok(packet): the handshake
\* entry of the source afterwards, and the outcome ("decode_failed" is the
\* unwrap() of the decode result: the task panics)
ReaderStep(packet) ==
    LET source == packet.source
        keep == handshake_tracker[source]
    IN IF Guarded(packet) THEN [ entry |-> keep, outcome |-> "discarded" ]
       ELSE IF ForUs(packet)
       THEN IF packet.data.kind = "handshake"
            THEN HandleHandshake(IF IsSome(keep) THEN Unwrap(keep)
                                 ELSE NewHandshake("responder"), packet.data)
            ELSE IF transport_tracker[source] = None
            THEN [ entry |-> keep, outcome |-> "initiate_requested" ]
            ELSE IF Unwrap(transport_tracker[source]).remote # packet.data.sealed_by
            THEN [ entry |-> keep, outcome |-> "open_failed" ]
            ELSE IF packet.data.decodes
            THEN [ entry |-> keep, outcome |-> "decoded" ]
            ELSE [ entry |-> keep, outcome |-> "decode_failed" ]
       ELSE [ entry |-> keep, outcome |-> "routed" ]

\* packet_reader reads a packet, one of those on the wire
ReadFrom(wire) ==
    /\ conn = "reading"
    /\ \E packet \in wire :
         LET r == ReaderStep(packet)
         IN /\ handshake_tracker' = [handshake_tracker EXCEPT ![packet.source] = r.entry]
            /\ conn' = IF r.outcome = "decode_failed" THEN "panicked" ELSE conn
            /\ last_step' = IF r.outcome = "routed"
                            THEN WithRoute(Step("reader", packet.source, FALSE, r.outcome),
                                           packet.destination)
                            ELSE IF r.outcome = "decoded"
                            THEN Holding(Step("reader", packet.source, FALSE, r.outcome),
                                         "transport_tracker")
                            ELSE Step("reader", packet.source, Guarded(packet), r.outcome)
            /\ UNCHANGED << transport_tracker, promoting, channel_reader, transFrame >>

\* packet_reader reads whatever the remote put on the wire
ReadPacket == ReadFrom(Packets)

\* the stream of the connection ends or yields an error: packet_reader returns
ConnectionEnds ==
    /\ conn = "reading"
    /\ conn' = "closed"
    /\ last_step' = Step("reader", OwnKey, FALSE, "closed")
    /\ UNCHANGED << handshake_tracker, transport_tracker, promoting, channel_reader, transFrame >>

\* mutant: the state is filed whatever the packet read was
AnonymousStepFilesAlways(packet) ==
    [ entry |-> Some(HsRead(HsWrite(NewHandshake("initiator")), packet.data).hs),
      outcome |-> "anon_filed" ]

\* anonymous_handshake after its first message went out (or timed out): the
\* result of the one read it makes
AnonymousStep(packet) ==
    LET r == HsRead(HsWrite(NewHandshake("initiator")), packet.data)
    IN IF packet.destination # Some(OwnKey) \/ packet.data.kind # "handshake" \/ ~r.ok
       THEN [ entry |-> handshake_tracker[packet.source], outcome |-> "discarded" ]
       ELSE [ entry |-> Some(r.hs), outcome |-> "anon_filed" ]

\* finalize_peer_connection runs anonymous_handshake before it spawns the
\* reader: the send fails (todo!()), or the read yields a packet, or it yields
\* none (timeout, end of stream, error)
AnonymousHandshake ==
    /\ conn = "handshaking"
    /\ \/ /\ conn' = "panicked"
          /\ last_step' = Step("anon", OwnKey, FALSE, "send_failed")
          /\ UNCHANGED handshake_tracker
       \/ /\ conn' = "reading"
          /\ last_step' = Step("anon", OwnKey, FALSE, "no_packet")
          /\ UNCHANGED handshake_tracker
       \/ \E packet \in Packets :
            /\ conn' = "reading"
            /\ handshake_tracker' =
                 [handshake_tracker EXCEPT ![packet.source] = AnonymousStep(packet).entry]
            /\ last_step' = Step("anon", packet.source, Guarded(packet),
                                 AnonymousStep(packet).outcome)
    /\ UNCHANGED << transport_tracker, promoting, channel_reader, transFrame >>

\* mutant: the remote static key is not compared with the key of the entry
RemoteMatchesAlways(source, remote_node_id) == TRUE

\* handshake_continue line 39
RemoteMatches(source, remote_node_id) == source = remote_node_id

\* handshake_continue visits the entry of source: a finished handshake is
\* removed and, if the remote static key is the entry's key, its transport
\* state goes on to the upsert; on its turn the next message is written and
\* sent to the router, or the entry removed if writing fails
ContinueEntry(source) ==
    /\ promoting = None
    /\ IsSome(handshake_tracker[source])
    /\ LET hs == Unwrap(handshake_tracker[source])
       IN IF IsHandshakeFinished(hs)
          THEN /\ handshake_tracker' = [handshake_tracker EXCEPT ![source] = None]
               /\ IF RemoteMatches(source, hs.remote)
                  THEN /\ promoting' = Some(<< source, hs.remote >>)
                       /\ last_step' = Step("continue", source, FALSE, "finished")
                  ELSE /\ promoting' = None
                       /\ last_step' = Step("continue", source, FALSE, "mismatch")
          ELSE IF IsMyTurn(hs)
          THEN /\ promoting' = None
               /\ \/ /\ handshake_tracker' =
                          [handshake_tracker EXCEPT ![source] = Some(HsWrite(hs))]
                     /\ last_step' = Holding(WithRoute(Step("continue", source, FALSE, "wrote"),
                                                       Some(source)),
                                             "handshake_tracker")
                  \/ /\ handshake_tracker' = [handshake_tracker EXCEPT ![source] = None]
                     /\ last_step' = Step("continue", source, FALSE, "write_failed")
          ELSE /\ last_step' = Step("continue", source, FALSE, "waiting")
               /\ UNCHANGED << handshake_tracker, promoting >>

\* handshake_continue comes to some entry, at any point of its scan
ContinueHandshake ==
    /\ \E source \in Keys : ContinueEntry(source)
    /\ UNCHANGED << transport_tracker, conn, channel_reader, transFrame >>

\* the outcomes after which the while loop is left by break (lines 54 and 74)
Breaks == { "finished", "mismatch", "write_failed" }

\* one pass of the while loop: the entry first_entry_async or next_async
\* yields is one not visited in this scan; after a break the task sleeps and
\* the next scan starts from first_entry_async
Scan(source) ==
    /\ source \notin scanned
    /\ ContinueEntry(source)
    /\ scanned' = IF last_step'.outcome \in Breaks THEN { } ELSE scanned \cup { source }
    /\ UNCHANGED << transport_tracker, conn, channel_reader, driverFrame >>

ScanEntry == \E source \in Keys : Scan(source)

\* next_async (or first_entry_async) yields None: the scan is over, the task
\* sleeps a second and starts the next
TickEnds ==
    /\ promoting = None
    /\ \A key \in Keys \ scanned : handshake_tracker[key] = None
    /\ scanned' = { }
    /\ last_step' = Step("continue", OwnKey, FALSE, "tick_end")
    /\ UNCHANGED << handshake_tracker, transport_tracker, promoting, conn, channel_reader,
                    driverFrame >>

\* handshake_continue lines 48-51: transport_tracker.upsert_async
InstallTransport ==
    /\ promoting # None
    /\ transport_tracker' =
         [transport_tracker EXCEPT ![Unwrap(promoting)[1]] = Some([ remote |-> Unwrap(promoting)[2] ])]
    /\ promoting' = None
    /\ last_step' = Step("continue", Unwrap(promoting)[1], FALSE, "installed")
    /\ UNCHANGED << handshake_tracker, conn, channel_reader, transFrame >>

\* channel_initiator serves a request to open a channel to node: nothing if
\* the node has a handshake entry; else a new initiator state writes the first
\* handshake message, which goes to the router, and the state is dropped at
\* the end of the iteration
InitiateChannel ==
    /\ \E node \in PeerKeys :
         last_step' = IF IsSome(handshake_tracker[node])
                      THEN Step("initiator", node, FALSE, "already_handshaking")
                      ELSE WithRoute(Step("initiator", node, FALSE, "initiated"), Some(node))
    /\ UNCHANGED << handshake_tracker, transport_tracker, promoting, conn, channel_reader,
                    transFrame >>

\* channel_write_message has segments for node: with a transport state each
\* is sealed and goes to the router, else a channel is requested
WriteSegments ==
    /\ \E node \in PeerKeys :
         last_step' = IF IsSome(transport_tracker[node])
                      THEN Holding(WithRoute(Step("writer", node, FALSE, "segment_sent"),
                                             Some(node)),
                                   "transport_tracker")
                      ELSE Step("writer", node, FALSE, "initiate_requested")
    /\ UNCHANGED << handshake_tracker, transport_tracker, promoting, conn, channel_reader,
                    transFrame >>

\* the variants of Message
MessageKinds ==
    { "RequestPeerSuggestion", "PeerSuggestion", "RequestConnection", "ConnectionAccepted",
      "ConnectionDenied", "ConnectionHeartbeat", "ConnectionClose", "ConnectionData" }

\* the variants handle_message answers with todo!()
Unimplemented ==
    { "RequestConnection", "ConnectionAccepted", "ConnectionDenied", "ConnectionHeartbeat" }

\* channel_read_message takes a segment of source that completes a message of
\* this kind: without a transport state a channel is requested; else the
\* message goes to handle_message, inside the reader's task
ReadMessage ==
    /\ channel_reader = "running"
    /\ \E source \in PeerKeys, message \in MessageKinds :
         IF transport_tracker[source] = None
         THEN /\ last_step' = Step("channel", source, FALSE, "initiate_requested")
              /\ UNCHANGED channel_reader
         ELSE /\ last_step' = Step("channel", source, FALSE,
                                   IF message \in Unimplemented THEN "unimplemented"
                                   ELSE "handled")
              /\ channel_reader' = IF message \in Unimplemented THEN "panicked" ELSE "running"
    /\ UNCHANGED << handshake_tracker, transport_tracker, promoting, conn, transFrame >>

\* ServerState::new: empty maps; the connection is at the start of
\* finalize_peer_connection (start "handshaking": this side initiated and is
\* not anonymous; "reading" otherwise)
TransInit(start) ==
    /\ handshake_tracker = [key \in Keys |-> None]
    /\ transport_tracker = [key \in Keys |-> None]
    /\ promoting = None
    /\ conn = start
    /\ channel_reader = "running"
    /\ last_step = Step("none", OwnKey, FALSE, "none")

\* the same connection when the other connections of the node have already
\* left these entries in the shared maps
TransInitWith(start, handshakes, transports) ==
    /\ handshake_tracker = handshakes
    /\ transport_tracker = transports
    /\ promoting = None
    /\ conn = start
    /\ channel_reader = "running"
    /\ last_step = Step("none", OwnKey, FALSE, "none")

(***************************************************************************)
(* The router (transport/router.rs).  Candidates are Peers.  score_keeper   *)
(* is created empty and never written, so best() is None; candidates come  *)
(* only from the connection notifications received while a packet waits.   *)
(* A write channel is "open", "closed" (its packet_writer is gone but the   *)
(* entry is still in the map: send fails) or "none".                       *)
(***************************************************************************)
Peers == { "p1", "p2" }

\* bound: iterations of the selection loop counted for one packet (the
\* counter stays at the bound afterwards)
MaxIterations == 7

\* bound: connection notifications the router has not used up yet (waiting
\* in its receiver or in new_canidates)
MaxNotifications == 2

\* ScoreKeeper::best on the router's score_keeper
Best == None

\* mutant: the origin is treated like any other forwarder
MaySendAlways(peer, origin, tries_until_return_to_sender_allowed) == TRUE

\* router.rs line 99
MaySend(peer, origin, tries_until_return_to_sender_allowed) ==
    Some(peer) # origin \/ tries_until_return_to_sender_allowed = 0

\* mutant: a failed send empties the whole map
RemoveEntryRemovesAll(map, peer) == [other \in DOMAIN map |-> "none"]

\* router.rs line 122: entry.remove_entry()
RemoveEntry(map, peer) == [map EXCEPT ![peer] = "none"]

RouterIdle ==
    [ pc |-> "idle", origin |-> None, tries |-> 5, iteration |-> 0,
      new_canidates |-> << >>, refused |-> 0, failed_send |-> FALSE ]

RouteLog(iteration, canidate, result) ==
    [ iteration |-> iteration, canidate |-> canidate, result |-> result ]

\* request_route_packet.recv(): the next RequestRoutePacket; one without a
\* destination is only logged
RoutePacket ==
    /\ router.pc = "idle"
    /\ \E origin \in { None } \cup { Some(peer) : peer \in Peers }, has_destination \in BOOLEAN :
         /\ router' = IF has_destination
                      THEN [RouterIdle EXCEPT !.pc = "loop", !.origin = origin]
                      ELSE [RouterIdle EXCEPT !.origin = origin]
         /\ route_log' = RouteLog(0, None, IF has_destination THEN "received" ELSE "no_destination")
    /\ UNCHANGED << notifications, request_write_packet, routerFrame >>

\* the rest of an iteration that sent nothing: the counter goes down and the
\* biased select takes a waiting notification, else sleeps
FailedIteration(r, canidate, result) ==
    /\ router' = [r EXCEPT
         !.tries = IF @ = 0 THEN 0 ELSE @ - 1,
         !.new_canidates = IF notifications = << >> THEN @ ELSE Append(@, Head(notifications)),
         !.refused = IF result = "refused" THEN @ + 1 ELSE @]
    /\ notifications' = IF notifications = << >> THEN notifications ELSE Tail(notifications)
    /\ route_log' = RouteLog(r.iteration, canidate, result)
    /\ UNCHANGED request_write_packet

\* one iteration of the selection loop
SelectionIteration ==
    /\ router.pc = "loop"
    /\ \E from_new \in BOOLEAN :
         LET pops == from_new /\ router.new_canidates # << >>
             current_canidate == IF pops THEN Some(Head(router.new_canidates))
                                 ELSE IF from_new THEN None ELSE Best
             r == [router EXCEPT !.iteration = IF @ < MaxIterations THEN @ + 1 ELSE @,
                                 !.new_canidates = IF pops THEN Tail(@) ELSE @]
         IN IF current_canidate = None
            THEN FailedIteration(r, None, "no_canidate")
            ELSE LET peer == Unwrap(current_canidate)
                 IN IF request_write_packet[peer] = "none"
                    THEN FailedIteration(r, current_canidate, "no_channel")
                    ELSE IF ~MaySend(peer, router.origin, router.tries)
                    THEN FailedIteration(r, current_canidate, "refused")
                    ELSE IF request_write_packet[peer] = "open"
                    THEN /\ router' = [r EXCEPT !.pc = "idle"]
                         /\ route_log' = RouteLog(r.iteration, current_canidate, "sent")
                         /\ UNCHANGED << notifications, request_write_packet >>
                    ELSE /\ router' = [r EXCEPT !.failed_send = TRUE]
                         /\ request_write_packet' = RemoveEntry(request_write_packet, peer)
                         /\ route_log' = RouteLog(r.iteration, current_canidate, "send_failed")
                         /\ UNCHANGED notifications
    /\ UNCHANGED routerFrame

\* finalize_peer_connection for a peer: the notification is sent and, if the
\* connection has a writer, its channel registered
PeerConnects ==
    /\ Len(notifications) + Len(router.new_canidates) < MaxNotifications
    /\ \E peer \in Peers, writer \in BOOLEAN :
         /\ notifications' = Append(notifications, peer)
         /\ request_write_packet' =
              IF writer THEN [request_write_packet EXCEPT ![peer] = "open"]
              ELSE request_write_packet
    /\ UNCHANGED << router, route_log, routerFrame >>

\* the connection task of a peer ends: packet_writer returns and drops the
\* receiver; afterwards the entry is removed
WriterEnds ==
    /\ \E peer \in Peers :
         \/ /\ request_write_packet[peer] = "open"
            /\ request_write_packet' = [request_write_packet EXCEPT ![peer] = "closed"]
         \/ /\ request_write_packet[peer] = "closed"
            /\ request_write_packet' = [request_write_packet EXCEPT ![peer] = "none"]
    /\ UNCHANGED << router, notifications, route_log, routerFrame >>

\* packet_router before its first request; no peer connected
RouterInit ==
    /\ router = RouterIdle
    /\ notifications = << >>
    /\ request_write_packet = [peer \in Peers |-> "none"]
    /\ route_log = RouteLog(0, None, "none")

(***************************************************************************)
(* ScoreKeeper (transport/router.rs).  An event is AcceptedPacket          *)
(* {time_taken, failed}, time_taken in whole seconds.  A peer is in the    *)
(* map once it has an event.  best() takes the maximum over the map's      *)
(* iteration order, which is arbitrary: among peers with equal sums any    *)
(* may come out.                                                           *)
(***************************************************************************)
\* bound: events recorded in a score keeper (below the 50 a peer's ring holds)
MaxEvents == 3

PeerEvents == [ time_taken : 0 .. 2, failed : BOOLEAN ]

\* PeerEvent::score
Score(event) == IF event.failed THEN - event.time_taken ELSE event.time_taken

RECURSIVE SumScores(_)
\* a.iter().map(|a| a.score()).sum()
SumScores(events) ==
    IF events = << >> THEN 0 ELSE Score(Head(events)) + SumScores(Tail(events))

Tracked(keeper) == { peer \in DOMAIN keeper : keeper[peer] # << >> }

\* mutant: best() takes the minimum
MinBy(keeper) ==
    { peer \in Tracked(keeper) :
        \A other \in Tracked(keeper) : SumScores(keeper[peer]) <= SumScores(keeper[other]) }

\* the peers max_by can return
MaxBy(keeper) ==
    { peer \in Tracked(keeper) :
        \A other \in Tracked(keeper) : SumScores(keeper[other]) <= SumScores(keeper[peer]) }

\* ScoreKeeper::insert
InsertEvent ==
    /\ Len(score_keeper["p1"]) + Len(score_keeper["p2"]) < MaxEvents
    /\ \E peer \in Peers, event \in PeerEvents :
         score_keeper' = [score_keeper EXCEPT ![peer] = Append(@, event)]
    /\ best_out' = None
    /\ UNCHANGED scoreFrame

\* ScoreKeeper::best
CallBest ==
    /\ IF Tracked(score_keeper) = { }
       THEN best_out' = Some(None)
       ELSE \E peer \in MaxBy(score_keeper) : best_out' = Some(Some(peer))
    /\ UNCHANGED << score_keeper, scoreFrame >>

\* ScoreKeeper::default
ScoreInit ==
    /\ score_keeper = [peer \in Peers |-> << >>]
    /\ best_out = None

(***************************************************************************)
(* The IPC socket (ipc/socket.rs): clients send Listen{application_id}.    *)
(***************************************************************************)
Clients == { "c1", "c2", "c3" }

ApplicationIds == { "app001", "app002" }

\* connection_handler gets Listen{application_id} from a client: insert_async
\* fails if the id has an entry; else the entry is made and a
\* connection_listener task spawned
Listen ==
    /\ \E client \in Clients, application_id \in ApplicationIds :
         IF application_id \in application_tracker
         THEN UNCHANGED << application_tracker, listeners, claims >>
         ELSE /\ application_tracker' = application_tracker \cup { application_id }
              /\ listeners' = listeners \cup { application_id }
              /\ claims' = claims \cup { << client, application_id >> }
    /\ UNCHANGED ipcFrame

\* a spawned connection_listener runs: it removes the id's entry, which drops
\* the only sender of its channel, so its recv() loop ends at once
ConnectionListener ==
    /\ \E application_id \in listeners :
         /\ application_tracker' = application_tracker \ { application_id }
         /\ listeners' = listeners \ { application_id }
    /\ UNCHANGED << claims, ipcFrame >>

\* a client's connection_handler ends: the stream ended or failed, or the
\* client sent Connect (todo!())
ClientLeaves ==
    /\ \E client \in Clients :
         /\ \E application_id \in ApplicationIds : << client, application_id >> \in claims
         /\ claims' = { claim \in claims : claim[1] # client }
    /\ UNCHANGED << application_tracker, listeners, ipcFrame >>

\* ApplicationTracker::default
IpcInit ==
    /\ application_tracker = { }
    /\ listeners = { }
    /\ claims = { }

(***************************************************************************)
(* Connection setup (transport/setup_connection.rs).  The accepter and the *)
(* connection initiator are two tasks that both call                       *)
(* finalize_peer_connection; each await in it is a point where the other   *)
(* may run.  A call is "idle" (not in the function), "checked" (past the   *)
(* is_connected test), "registered" (peer added, notified, write channel   *)
(* inserted) or "panicked".  The connection has a reader and a writer.     *)
(***************************************************************************)
Callers == { "accepter", "initiator" }

\* bound: sessions running or being set up for one peer
MaxSessions == 2

Call(at, peer) == [ at |-> at, peer |-> peer ]

\* calls for the peer that are past the test and have not spawned the session
InProgress(peer) ==
    { caller \in Callers :
        finalizing[caller].peer = peer /\ finalizing[caller].at \in { "checked", "registered" } }

\* broadcast::Sender::send as the router's receiver sees it: the oldest
\* value is lost when the queue is full
Notify(queue, peer) ==
    IF Len(queue) < MaxNotifications THEN Append(queue, peer)
    ELSE Append(Tail(queue), peer)

\* finalize_peer_connection lines 43-45: the already-connected test
CheckConnected ==
    /\ \E caller \in Callers, peer \in Peers :
         /\ finalizing[caller].at = "idle"
         /\ sessions[peer] + Cardinality(InProgress(peer)) < MaxSessions
         /\ finalizing' = IF peer \in peer_tracker THEN finalizing
                          ELSE [finalizing EXCEPT ![caller] = Call("checked", peer)]
    /\ UNCHANGED << peer_tracker, sessions, anonymous, notifications, request_write_packet,
                    router, route_log, setupFrame >>

\* lines 47-49 and 91-95: the peer is added and announced, the write channel
\* inserted
Register ==
    /\ \E caller \in Callers :
         LET peer == finalizing[caller].peer
         IN /\ finalizing[caller].at = "checked"
            /\ peer_tracker' = peer_tracker \cup { peer }
            /\ notifications' = Notify(notifications, peer)
            /\ request_write_packet' = [request_write_packet EXCEPT ![peer] = "open"]
            /\ finalizing' = [finalizing EXCEPT ![caller] = Call("registered", peer)]
    /\ UNCHANGED << sessions, anonymous, router, route_log, setupFrame >>

\* lines 100-118: the initiating side of a non-anonymous node runs
\* anonymous_handshake, whose send may fail (todo!(): the calling task
\* panics); then the session task is spawned and the call returns
StartSession ==
    /\ \E caller \in Callers :
         LET peer == finalizing[caller].peer
         IN /\ finalizing[caller].at = "registered"
            /\ \/ /\ ~anonymous /\ caller = "initiator"
                  /\ finalizing' = [finalizing EXCEPT ![caller] = Call("panicked", peer)]
                  /\ UNCHANGED sessions
               \/ /\ finalizing' = [finalizing EXCEPT ![caller] = Call("idle", peer)]
                  /\ sessions' = [sessions EXCEPT ![peer] = @ + 1]
    /\ UNCHANGED << peer_tracker, anonymous, notifications, request_write_packet,
                    router, route_log, setupFrame >>

\* the select! of a session task completes (its reader or writer returned):
\* lines 113-114 deregister the peer
SessionEnds ==
    /\ \E peer \in Peers :
         /\ sessions[peer] > 0
         /\ sessions' = [sessions EXCEPT ![peer] = @ - 1]
         /\ peer_tracker' = peer_tracker \ { peer }
         /\ request_write_packet' = [request_write_packet EXCEPT ![peer] = "none"]
    /\ UNCHANGED << finalizing, anonymous, notifications, router, route_log, setupFrame >>

\* the reader of a session panics (the unwrap() of reader.rs line 92): the
\* task unwinds before lines 113-114; its receiver is dropped
SessionPanics ==
    /\ \E peer \in Peers :
         /\ sessions[peer] > 0
         /\ sessions' = [sessions EXCEPT ![peer] = @ - 1]
         /\ request_write_packet' =
              [request_write_packet EXCEPT ![peer] = IF @ = "open" THEN "closed" ELSE @]
    /\ UNCHANGED << peer_tracker, finalizing, anonymous, notifications, router, route_log,
                    setupFrame >>

\* ServerState::new, no call in progress
SetupInit(is_anonymous) ==
    /\ peer_tracker = { }
    /\ finalizing = [caller \in Callers |-> Call("idle", "p1")]
    /\ sessions = [peer \in Peers |-> 0]
    /\ anonymous = is_anonymous

(***************************************************************************)
(* Stream framing (transport/driver/mod.rs).  A packet on the wire is its  *)
(* bincode encoding: the 32 bytes of the source key, the Option tag of the *)
(* destination and its 32 bytes, the number of the PacketData variant, and *)
(* the length and the bytes of its payload.  Keys and Noise payloads are   *)
(* byte streams of their own ("key", "noise"), whose single bytes have no  *)
(* value the model knows.                                                  *)
(***************************************************************************)
KeyBytes(key) == << StreamRun("key", key, 0, 32) >>

\* a packet of the stream: its keys, its variant (0 Handshake, 1
\* MessageSegment) and the length of its Noise payload
WirePacket(source, destination, variant, len) ==
    [ source |-> source, destination |-> destination, variant |-> variant, len |-> len ]

\* PacketEncoderDecoder::encode: bincode::serde::encode_into_std_write
EncodePacket(packet) ==
    Cat(Cat(Cat(Cat(KeyBytes(packet.source),
                    IF packet.destination = None THEN VarInt(0)
                    ELSE Cat(VarInt(1), KeyBytes(Unwrap(packet.destination)))),
                VarInt(packet.variant)),
            VarInt(packet.len)),
        << StreamRun("noise", packet, 0, packet.len) >>)

\* the first byte of a non-empty vector, as a run of length one
FirstByte(v) == Take(v, 1)[1]

\* the byte has a value the model knows
IsKnown(byte) == byte[1] = "byte"

\* bincode reads an unsigned number of standard(): [kind, value, rest], kind
\* "ok", "short" (the bytes end before the number does) or "opaque" (the
\* number depends on a byte without a known value, or is wider than 16 bit)
ReadVarInt(v) ==
    IF v = << >> THEN [ kind |-> "short", value |-> 0, rest |-> v ]
    ELSE IF ~IsKnown(FirstByte(v)) THEN [ kind |-> "opaque", value |-> 0, rest |-> v ]
    ELSE IF FirstByte(v)[2] < 251
    THEN [ kind |-> "ok", value |-> FirstByte(v)[2], rest |-> Drop(v, 1) ]
    ELSE IF FirstByte(v)[2] > 251 THEN [ kind |-> "opaque", value |-> 0, rest |-> v ]
    ELSE IF VecLen(v) < 3 THEN [ kind |-> "short", value |-> 0, rest |-> v ]
    ELSE LET lo == FirstByte(Drop(v, 1))
             hi == FirstByte(Drop(v, 2))
         IN IF IsKnown(lo) /\ IsKnown(hi)
            THEN [ kind |-> "ok", value |-> lo[2] + 256 * hi[2], rest |-> Drop(v, 3) ]
            ELSE [ kind |-> "opaque", value |-> 0, rest |-> v ]

\* the outcome of a decoding that did not yield a packet
NoPacket(kind) == [ kind |-> kind, source |-> << >>, destination |-> None, variant |-> 0,
                    payload |-> << >>, rest |-> << >> ]

\* bincode::serde::decode_from_std_read of a Packet from the bytes v: kind
\* "some" with the fields read and the bytes left, "short" (a read_exact met
\* the end of the bytes), "error" (a tag or variant number that does not
\* exist) or "opaque"
ReadPacketBytes(v) ==
    IF VecLen(v) < 32 THEN NoPacket("short")
    ELSE
    LET source == Take(v, 32)
        tag == ReadVarInt(Drop(v, 32))
    IN IF tag.kind # "ok" THEN NoPacket(tag.kind)
       ELSE IF tag.value > 1 THEN NoPacket("error")
       ELSE IF tag.value = 1 /\ VecLen(tag.rest) < 32 THEN NoPacket("short")
       ELSE
       LET destination == IF tag.value = 1 THEN Some(Take(tag.rest, 32)) ELSE None
           variant == ReadVarInt(IF tag.value = 1 THEN Drop(tag.rest, 32) ELSE tag.rest)
       IN IF variant.kind # "ok" THEN NoPacket(variant.kind)
          ELSE IF variant.value > 1 THEN NoPacket("error")
          ELSE
          LET len == ReadVarInt(variant.rest)
          IN IF len.kind # "ok" THEN NoPacket(len.kind)
             ELSE IF variant.value = 0 /\ len.value > 128 THEN NoPacket("error")
             ELSE IF VecLen(len.rest) < len.value THEN NoPacket("short")
             ELSE [ kind |-> "some", source |-> source, destination |-> destination,
                    variant |-> variant.value, payload |-> Take(len.rest, len.value),
                    rest |-> Drop(len.rest, len.value) ]

\* PacketEncoderDecoder::decode on the buffer buf: the results it can have,
\* each [result, packet, src] with the buffer it leaves.  src.reader() hands
\* bincode the buffer itself, so every byte bincode reads is taken out of it,
\* also when the decoding fails.  A decoding that runs out of bytes yields
\* Ok(None) or Err according to the error bincode's reader makes of the
\* failed read_exact (UnexpectedEnd or Io); one that depends on bytes without
\* a known value can end in any way
DecodeResults(buf) ==
    IF buf = << >> THEN { [ result |-> "none", packet |-> None, src |-> buf ] }
    ELSE
    LET r == ReadPacketBytes(buf)
    IN IF r.kind = "some"
       THEN { [ result |-> "some",
                packet |-> Some([ source |-> r.source, destination |-> r.destination,
                                  variant |-> r.variant, payload |-> r.payload ]),
                src |-> r.rest ] }
       ELSE IF r.kind = "short"
       THEN { [ result |-> result, packet |-> None, src |-> << >> ] :
                result \in { "none", "error" } }
       ELSE IF r.kind = "error"
       THEN { [ result |-> "error", packet |-> None, src |-> << >> ] }
       ELSE { [ result |-> result, packet |-> None, src |-> << >> ] :
                result \in { "none", "error", "garbage" } }

\* bound: the sizes of the reads that end before the stream does
ReadSizes == { 20, 40, 67 }

\* the framed reader reads bytes of the stream into the buffer (a read yields
\* any part of what is on its way); it reads when the decoder has asked for
\* more (Ok(None)) or nothing was decoded yet
Arrive ==
    /\ stream # << >>
    /\ decode_last.op = "none" \/ (decode_last.op = "decode" /\ decode_last.result = "none")
    /\ \E n \in { k \in ReadSizes : k < VecLen(stream) } \cup { VecLen(stream) } :
         /\ src' = Cat(src, Take(stream, n))
         /\ stream' = Drop(stream, n)
    /\ decode_last' = [ op |-> "read", result |-> "none", before |-> src ]
    /\ UNCHANGED << decoded, framingFrame >>

\* the framed reader calls decode: after a read, and again after each packet
\* decode returned
Decode ==
    /\ decode_last.op = "read" \/ (decode_last.op = "decode" /\ decode_last.result = "some")
    /\ \E r \in DecodeResults(src) :
         /\ src' = r.src
         /\ decoded' = IF r.result = "some" THEN Append(decoded, Unwrap(r.packet)) ELSE decoded
         /\ decode_last' = [ op |-> "decode", result |-> r.result, before |-> src ]
    /\ UNCHANGED << stream, framingFrame >>

\* a fresh framed reader and the bytes the remote is sending
FramingInit(bytes) ==
    /\ src = << >>
    /\ stream = bytes
    /\ decoded = << >>
    /\ decode_last = [ op |-> "none", result |-> "none", before |-> << >> ]

(***************************************************************************)
(* The channel writer (channel/writer.rs).  message_disassemblers is total *)
(* over the peer keys, None where the HashMap has no entry; notify_callbacks *)
(* is a function from the ids that have a callback to the number of the    *)
(* write request that brought it.  callbacks records, per write request,   *)
(* its destination, the id message() gave it and what became of its        *)
(* notify_sent: "absent" (the request had none), "pending", "fired" (the   *)
(* response was sent) or "dropped" (the sender was dropped unused: the     *)
(* requester's receiver yields an error).                                  *)
(***************************************************************************)
\* lines 71-118: the loop over the disassemblers that ends every iteration.
\* For each node payloads() is called; Some goes out as segments if the node
\* has a transport state, else a channel is requested
ResendDisassemblers(disassemblers) ==
    [node \in PeerKeys |->
        IF disassemblers[node] = None THEN None
        ELSE Some(DisPayloads(Unwrap(disassemblers[node])).dis)]

\* the nodes the loop has payloads for
ResendPayloads(disassemblers) ==
    { node \in PeerKeys :
        /\ IsSome(disassemblers[node])
        /\ IsSome(DisPayloads(Unwrap(disassemblers[node])).out) }

\* lines 73-106: the segments sent to the router, as <<node, id, count>>
ResendEmitted(disassemblers) ==
    { << node, Unwrap(DisPayloads(Unwrap(disassemblers[node])).out)[1],
         Len(Unwrap(DisPayloads(Unwrap(disassemblers[node])).out)[2]) >> :
        node \in { n \in ResendPayloads(disassemblers) : IsSome(transport_tracker[n]) } }

\* lines 107-116: the nodes sent to request_initiate_channel
ResendInitiated(disassemblers) ==
    { node \in ResendPayloads(disassemblers) : transport_tracker[node] = None }

WriterStep(op, destination, message_id, disassemblers) ==
    [ op |-> op, destination |-> destination, id |-> message_id,
      emitted |-> ResendEmitted(disassemblers),
      initiated |-> ResendInitiated(disassemblers) ]

\* the select yields a RequestWriteMessage: handle_write_message, then the
\* resend loop
HandleWriteMessage(messages) ==
    \E destination \in PeerKeys, message \in messages, has_notify \in BOOLEAN :
        LET dis == IF message_disassemblers[destination] = None
                   THEN MessageDisassemblerDefault
                   ELSE Unwrap(message_disassemblers[destination])
            r == DisMessage(dis, message)
            queued == [message_disassemblers EXCEPT ![destination] = Some(r.dis)]
            request == Len(callbacks) + 1
            replaced == IF has_notify /\ r.id \in DOMAIN notify_callbacks
                        THEN { notify_callbacks[r.id] } ELSE { }
        IN /\ ~r.panic
           /\ message_disassemblers' = ResendDisassemblers(queued)
           /\ notify_callbacks' = IF has_notify THEN MapInsert(notify_callbacks, r.id, request)
                                  ELSE notify_callbacks
           /\ callbacks' =
                Append([n \in 1..Len(callbacks) |->
                           IF n \in replaced THEN [callbacks[n] EXCEPT !.state = "dropped"]
                           ELSE callbacks[n]],
                       [ destination |-> destination, id |-> r.id,
                         state |-> IF has_notify THEN "pending" ELSE "absent" ])
           /\ writer_last' = WriterStep("write", destination, r.id, queued)
           /\ UNCHANGED writerFrame

\* the select yields a RequestUpdateMessageStatus:
\* handle_update_message_status, then the resend loop
HandleUpdateMessageStatus(ids, ranges) ==
    \E destination \in PeerKeys, message_id \in ids, head_status \in BOOLEAN,
       body_status \in ranges :
        LET known == IsSome(message_disassemblers[destination])
            dis == IF known
                   THEN DisBodyStatus(DisHeadStatus(Unwrap(message_disassemblers[destination]),
                                                    message_id, head_status),
                                      message_id, body_status)
                   ELSE MessageDisassemblerDefault
            updated == IF known THEN [message_disassemblers EXCEPT ![destination] = Some(dis)]
                       ELSE message_disassemblers
            fires == /\ known
                     /\ DisIsMessageConfirmed(dis, message_id)
                     /\ message_id \in DOMAIN notify_callbacks
        IN /\ message_disassemblers' = ResendDisassemblers(updated)
           /\ notify_callbacks' = IF fires THEN MapRemove(notify_callbacks, message_id)
                                  ELSE notify_callbacks
           /\ callbacks' = IF fires
                           THEN [callbacks EXCEPT ![notify_callbacks[message_id]].state = "fired"]
                           ELSE callbacks
           /\ writer_last' = WriterStep("status", destination, message_id, updated)
           /\ UNCHANGED writerFrame

\* the select yields the sleep: only the resend loop runs
Wakeup ==
    /\ message_disassemblers' = ResendDisassemblers(message_disassemblers)
    /\ writer_last' = WriterStep("wakeup", OwnKey, 0, message_disassemblers)
    /\ UNCHANGED << notify_callbacks, callbacks, writerFrame >>

\* lines 41-42: the maps are created empty
WriterInit ==
    /\ message_disassemblers = [node \in PeerKeys |-> None]
    /\ notify_callbacks = << >>
    /\ callbacks = << >>
    /\ writer_last = [ op |-> "none", destination |-> OwnKey, id |-> 0, emitted |-> { },
                       initiated |-> { } ]

(***************************************************************************)
(* The data channels of connections (channel/handle_message.rs lines       *)
(* 60-93).  request_receive_connection_data is total over the connection   *)
(* ids, None where the map has no entry.  An entry is [node, open]: the    *)
(* node the connection exists with (the map itself holds only the Sender;  *)
(* a ConnectionId is unique between two nodes only) and whether the        *)
(* receiving end of its channel is still there.                            *)
(***************************************************************************)
ConnectionIds == { 1, 2 }

DataChannel(node, open) == [ node |-> node, open |-> open ]

\* what the map can hold
ConnectionMaps ==
    [ConnectionIds -> { None } \cup { Some(DataChannel(node, open)) :
                                        node \in PeerKeys, open \in BOOLEAN }]

Handled(message, node, connection_id, outcome) ==
    [ message |-> message, node |-> node, connection_id |-> connection_id,
      outcome |-> outcome ]

\* handle_message on ConnectionClose { connection_id } from node
HandleConnectionClose ==
    \E node \in PeerKeys, connection_id \in ConnectionIds :
        /\ request_receive_connection_data' =
             [request_receive_connection_data EXCEPT ![connection_id] = None]
        /\ handled' = Handled("ConnectionClose", node, connection_id,
                              IF request_receive_connection_data[connection_id] = None
                              THEN "logged" ELSE "removed")
        /\ UNCHANGED connectionFrame

\* handle_message on ConnectionData { connection_id, data } from node
HandleConnectionData ==
    \E node \in PeerKeys, connection_id \in ConnectionIds :
        LET entry == request_receive_connection_data[connection_id]
        IN /\ request_receive_connection_data' =
                IF IsSome(entry) /\ ~Unwrap(entry).open
                THEN [request_receive_connection_data EXCEPT ![connection_id] = None]
                ELSE request_receive_connection_data
           /\ handled' = Handled("ConnectionData", node, connection_id,
                                 IF entry = None THEN "ignored"
                                 ELSE IF Unwrap(entry).open THEN "delivered"
                                 ELSE "removed")
           /\ UNCHANGED connectionFrame

\* the map as given, no message handled
ConnectionsInit(map) ==
    /\ request_receive_connection_data = map
    /\ handled = Handled("none", OwnKey, 1, "none")

\* handshake_continue is at the start of a scan
DriverInit == scanned = { }

\* every component but the named ones as constructed, nothing called
IdleExcept(components) ==
    /\ IF "asm" \in components THEN TRUE
       ELSE AsmInit(MessageAssemblerDefault, << >>) /\ sent_payload = << >>
    /\ IF "dis" \in components THEN TRUE ELSE DisInit(MessageDisassemblerDefault)
    /\ IF "trans" \in components THEN TRUE ELSE TransInit("reading")
    /\ IF "router" \in components THEN TRUE ELSE RouterInit
    /\ IF "score" \in components THEN TRUE ELSE ScoreInit
    /\ IF "ipc" \in components THEN TRUE ELSE IpcInit
    /\ IF "setup" \in components THEN TRUE ELSE SetupInit(FALSE)
    /\ IF "driver" \in components THEN TRUE ELSE DriverInit
    /\ IF "framing" \in components THEN TRUE ELSE FramingInit(<< >>)
    /\ IF "writer" \in components THEN TRUE ELSE WriterInit
    /\ IF "connections" \in components THEN TRUE ELSE ConnectionsInit([connection_id \in ConnectionIds |-> None])

\* bound: the number of message() calls
MaxMessages == 2

\* handle_write_message: message() for a write request
WriteMessage(messages) ==
    /\ Len(enqueued) < MaxMessages
    /\ \E message \in messages :
         LET r == DisMessage(Dis, message)
         IN /\ ~r.panic
            /\ SetDis(r.dis)
            /\ enqueued' = Append(enqueued, message)
            /\ returned_ids' = Append(returned_ids, r.id)
            /\ dis_last' = DisCall("message", r.id, FALSE, {}, Some(r.id), Dis, FALSE)
            /\ UNCHANGED << status_seen, disFrame >>

\* handle_update_message_status, first call: head_status()
HeadStatus(ids) ==
    \E message_id \in ids, head_status \in BOOLEAN :
        /\ SetDis(DisHeadStatus(Dis, message_id, head_status))
        /\ status_seen' = TRUE
        /\ dis_last' = DisCall("head_status", message_id, head_status, {}, None, Dis,
                                /\ dis_last.op = "head_status"
                                /\ dis_last.id = message_id
                                /\ dis_last.head_status = head_status)
        /\ UNCHANGED << enqueued, returned_ids, disFrame >>

\* handle_update_message_status, second call: body_status()
BodyStatus(ids, statuses) ==
    \E message_id \in ids, body_status \in statuses :
        /\ SetDis(DisBodyStatus(Dis, message_id, body_status))
        /\ status_seen' = TRUE
        /\ dis_last' = DisCall("body_status", message_id, FALSE, body_status, None, Dis,
                                /\ dis_last.op = "body_status"
                                /\ dis_last.id = message_id
                                /\ dis_last.body_status = body_status)
        /\ UNCHANGED << enqueued, returned_ids, disFrame >>

\* the writer asks for the segments to send
Payloads ==
    LET r == DisPayloads(Dis)
    IN /\ SetDis(r.dis)
       /\ dis_last' = DisCall("payloads", next_message_id, FALSE, {}, r.out, Dis,
                               dis_last.op = "payloads")
       /\ UNCHANGED << enqueued, returned_ids, status_seen, disFrame >>

(***************************************************************************)
(* SpecDisassembler: the writer task drives one disassembler, fresh at the *)
(* start, with write requests, status updates and sends in any order.      *)
(***************************************************************************)
\* the write requests: an empty variant, a short one, a short data message, a
\* data message long and uniform enough to be compressed, and incompressible
\* data of two and of MAX_BODIES_PER_MESSAGE full segments
Messages ==
    { RequestPeerSuggestion, ConnectionClose(3), ConnectionData(0, 5, 4),
      ConnectionData(0, 0, 30),
      ConnectionDataStream(0, 1, 2 * MAX_PACKET_PAYLOAD_SIZE),
      ConnectionDataStream(0, 2, MAX_BODIES_PER_MESSAGE * MAX_PACKET_PAYLOAD_SIZE) }

\* the ids and the ranges the status updates carry
StatusIds == 0..2

StatusRanges == { {}, { <<0, 0>> }, { <<1, 1>> }, { <<0, 1>> } }

InitDisassembler ==
    /\ DisInit(MessageDisassemblerDefault)
    /\ IdleExcept({"dis"})

Write == WriteMessage(Messages)

UpdateHeadStatus == HeadStatus(StatusIds)

UpdateBodyStatus == BodyStatus(StatusIds, StatusRanges)

NextDisassembler == Write \/ UpdateHeadStatus \/ UpdateBodyStatus \/ Payloads

SpecDisassembler == InitDisassembler /\ [][NextDisassembler]_vars

\* a fresh assembler after the segments of a sequence arrived, in its order
RECURSIVE FeedAll(_, _)
FeedAll(asm, segs) ==
    IF segs = << >> THEN asm
    ELSE FeedAll(AsmApply(asm, Head(segs)).asm, Tail(segs))

\* the orders in which n segments can arrive
Orders(n) == { f \in [1..n -> 1..n] : \A i, j \in 1..n : f[i] = f[j] => i = j }

\* exactly one message() call so far, and no status update
OneMessageEnqueued == Len(enqueued) = 1 /\ ~status_seen

\* C1: round trip.  After message(m) on a fresh disassembler, payloads() yields
\* the head and the bodies under the id message() returned, and a fresh
\* assembler that received them in any order returns from next() exactly the
\* bytes of m, labelled with that id.
RoundTrip ==
    OneMessageEnqueued =>
        LET r == DisPayloads(Dis)
        IN /\ IsSome(r.out)
           /\ Unwrap(r.out)[1] = returned_ids[1]
           /\ LET segs == Unwrap(r.out)[2]
              IN \A f \in Orders(Len(segs)) :
                    AsmNext(FeedAll(MessageAssemblerDefault,
                                    [i \in 1..Len(segs) |-> segs[f[i]]])).out
                      = Some(<< Encode(enqueued[1]), returned_ids[1] >>)

\* C2: on a fresh disassembler, after one message() call, payloads() returns
\* Some((0, [Head{body_count, compression}, Body 0, .., Body body_count - 1])):
\* the first message goes out under id 0.
FirstMessageEmittedUnderIdZero ==
    (OneMessageEnqueued /\ dis_last.op = "payloads") =>
        /\ IsSome(dis_last.out)
        /\ Unwrap(dis_last.out)[1] = 0
        /\ LET segs == Unwrap(dis_last.out)[2]
           IN /\ segs[1].kind = "head"
              /\ Len(segs) = 1 + segs[1].body_count
              /\ \A i \in 2..Len(segs) : segs[i].kind = "body" /\ segs[i].index = i - 2

\* C3: the ids successive message() calls return each are the one before plus
\* one modulo 2^16, and after every call highest_message_id is the id the call
\* assigned.
MessageIdsAreConsecutive ==
    /\ \A i \in 2..Len(returned_ids) : returned_ids[i] = (returned_ids[i - 1] + 1) % U16
    /\ returned_ids # << >> => highest_message_id = returned_ids[Len(returned_ids)]

\* the bodies among a sequence of segments
BodySegments(segs) == SelectSeq(segs, LAMBDA seg : seg.kind = "body")

\* C11: every message's head carries body_count = ceil(len / MAX) with
\* 1 <= body_count <= MAX_BODIES_PER_MESSAGE; the bodies payloads() pushes have
\* indices in [0, body_count), MAX bytes each but for the final one, which has
\* 1..MAX bytes.
BodyCountAndBodySizes ==
    \A id \in DOMAIN packets :
        LET tracker == packets[id]
            bodies == BodySegments(TrackerPayloads(id, tracker))
        IN /\ tracker.body_count = DivCeil(VecLen(tracker.payload), MAX_PACKET_PAYLOAD_SIZE)
           /\ 1 <= tracker.body_count
           /\ tracker.body_count <= MAX_BODIES_PER_MESSAGE
           /\ \A i \in 1..Len(bodies) :
                 /\ bodies[i].index \in 0..(tracker.body_count - 1)
                 /\ IF bodies[i].index < tracker.body_count - 1
                    THEN VecLen(bodies[i].data) = MAX_PACKET_PAYLOAD_SIZE
                    ELSE VecLen(bodies[i].data) \in 1..MAX_PACKET_PAYLOAD_SIZE

\* a message has been enqueued that payloads() has not retired yet (payloads()
\* retires one message each time it advances next_message_id from 0 on)
Outstanding(dis) == dis.next_message_id < Len(enqueued)

\* segs are exactly the unconfirmed segments of a tracker: the head iff it is not
\* confirmed, body i iff i is not confirmed, each once
ExactlyUnconfirmed(segs, tracker) ==
    /\ (\E i \in 1..Len(segs) : segs[i].kind = "head") <=> ~tracker.head_confirmed
    /\ \A index \in 0..(tracker.body_count - 1) :
          (\E i \in 1..Len(segs) : segs[i].kind = "body" /\ segs[i].index = index)
             <=> index \notin tracker.bodies_confirmed
    /\ \A i \in 1..Len(segs) :
          segs[i].kind = "body" => segs[i].index \in 0..(tracker.body_count - 1)
    /\ \A i, j \in 1..Len(segs) :
          (segs[i].kind = segs[j].kind /\ segs[i].index = segs[j].index) => i = j

\* C12: a payloads() call made while a message is outstanding finds its tracker
\* at next_message_id; when that tracker is not fully confirmed the call
\* returns that id with exactly the unconfirmed segments and leaves the
\* disassembler as it was.
PayloadsEmitsUnconfirmed ==
    (dis_last.op = "payloads" /\ Outstanding(dis_last.before)) =>
        LET before == dis_last.before
            id == before.next_message_id
        IN /\ id \in DOMAIN before.packets
           /\ ~DisIsMessageConfirmed(before, id) =>
                 /\ IsSome(dis_last.out)
                 /\ Unwrap(dis_last.out)[1] = id
                 /\ ExactlyUnconfirmed(Unwrap(dis_last.out)[2], before.packets[id])
                 /\ Dis = before

StatusIsIdempotent ==
    /\ \A id \in StatusIds, flag \in BOOLEAN :
          LET once == DisHeadStatus(Dis, id, flag)
              twice == DisHeadStatus(once, id, flag)
          IN /\ twice = once
             /\ DisPayloads(twice) = DisPayloads(once)
             /\ \A k \in StatusIds : DisIsMessageConfirmed(twice, k) = DisIsMessageConfirmed(once, k)
    /\ \A id \in StatusIds, ranges \in StatusRanges :
          LET once == DisBodyStatus(Dis, id, ranges)
              twice == DisBodyStatus(once, id, ranges)
          IN /\ twice = once
             /\ DisPayloads(twice) = DisPayloads(once)
             /\ \A k \in StatusIds : DisIsMessageConfirmed(twice, k) = DisIsMessageConfirmed(once, k)
    /\ (dis_last.repeated /\ dis_last.op \in { "head_status", "body_status" }) =>
          Dis = dis_last.before

\* C15 witness: body_status was applied twice in a row with the same non-empty
\* ranges to a message that has a tracker, after the head had been confirmed
StatusIdempotentWitness ==
    /\ dis_last.op = "body_status"
    /\ dis_last.repeated
    /\ dis_last.body_status # {}
    /\ dis_last.id \in DOMAIN packets
    /\ packets[dis_last.id].head_confirmed
    /\ packets[dis_last.id].bodies_confirmed = RangesCover(dis_last.body_status)

(***************************************************************************)
(* Scripts: what a sender puts on the wire.                                *)
(***************************************************************************)
\* bound: the number of bodies of a message whose segments arrive in any order
MaxBodyCount == 3

\* the content of body number index of a message of body_count bodies: bytes
\* that are never the zero fill; the last MaxBodyCount bodies differ from each
\* other and from the ones before them
BodyByte(body_count, index) ==
    IF index < body_count - MaxBodyCount THEN 255 ELSE (index % 250) + 1

\* the byte of the bodies before the last MaxBodyCount ones
EarlyByte == BodyByte(MaxBodyCount + 1, 0)

\* a well-formed message: body_count bodies, all of MAX bytes but the last, which
\* has last_len bytes (1..MAX)
WellFormedBody(id, body_count, last_len, index) ==
    BodySegment(id, index,
        Fill(BodyByte(body_count, index),
             IF index = body_count - 1 THEN last_len ELSE MAX_PACKET_PAYLOAD_SIZE))

WellFormedBodies(id, body_count, last_len) ==
    { WellFormedBody(id, body_count, last_len, index) : index \in 0..(body_count - 1) }

BodiesOf(segs) == { seg \in segs : seg.kind = "body" }
HeadsOf(segs) == { seg \in segs : seg.kind = "head" }

\* the body with the given index among segs
BodyAt(segs, index) == CHOOSE seg \in BodiesOf(segs) : seg.index = index

\* the bodies lo..hi among segs, concatenated in index order
RECURSIVE ConcatRange(_, _, _)
ConcatRange(segs, lo, hi) ==
    IF lo > hi THEN <<>>
    ELSE IF lo = hi THEN BodyAt(segs, lo).data
    ELSE LET mid == (lo + hi) \div 2
         IN Cat(ConcatRange(segs, lo, mid), ConcatRange(segs, mid + 1, hi))

\* the assembler after the first early bodies (all of MAX bytes of EarlyByte) of
\* the message at the cursor have arrived in index order at a fresh slot: what
\* body() leaves after the calls body(cursor, 0, ..) .. body(cursor, early - 1, ..)
EarlyBodiesArrived(asm, early) ==
    IF early <= 0 THEN asm
    ELSE SetSlot(asm, 1,
            [PendingMessageDefault EXCEPT
                !.max_index_seen = early - 1,
                !.committed_bodies = [i \in 0..(MAX_BODIES_PER_MESSAGE - 1) |-> i < early],
                !.bodies = Fill(EarlyByte, early * MAX_PACKET_PAYLOAD_SIZE)])

LastLens == { 1, 4, MAX_PACKET_PAYLOAD_SIZE - 1, MAX_PACKET_PAYLOAD_SIZE }

\* cursors: a fresh assembler, and one about to wrap (all of its earlier
\* messages delivered, every slot empty)
StartCursors == { 0, U16 - 1 }

BodyCounts == (1..MaxBodyCount) \cup { MAX_BODIES_PER_MESSAGE }

(***************************************************************************)
(* SpecPermutation: one well-formed message for the id at the cursor; its  *)
(* head and its last (up to MaxBodyCount) bodies arrive in any order (the  *)
(* bodies before those have arrived in index order).                       *)
(***************************************************************************)
InitPermutation ==
    \E cursor \in StartCursors, body_count \in BodyCounts, last_len \in LastLens :
        LET bodies == WellFormedBodies(cursor, body_count, last_len)
            early == { seg \in bodies : seg.index < body_count - MaxBodyCount }
            segs == bodies \cup { HeadSegment(cursor, body_count, FALSE) }
            fresh == [MessageAssemblerDefault EXCEPT !.current_message_id = cursor]
        IN /\ AsmInit(EarlyBodiesArrived(fresh, body_count - MaxBodyCount),
                      [seg \in segs \ early |-> 1])
           /\ sent_payload = ConcatRange(bodies, 0, body_count - 1)
           /\ IdleExcept({"asm"})

NextPermutation == Deliver \/ CallNext

SpecPermutation == InitPermutation /\ [][NextPermutation]_vars

AllArrived == \A seg \in DOMAIN pool : pool[seg] = 0

ScriptHead == CHOOSE seg \in HeadsOf(DOMAIN pool) : TRUE

\* C5: a well-formed message at the cursor, its head and bodies arriving in any
\* order into an empty slot: no call is rejected, once all have arrived the
\* message is finished, and next() returns the concatenation of the bodies in
\* index order under the message's id (and nothing before all have arrived).
PermutationIndependence ==
    /\ ~asm_panicked
    /\ dropped_calls = {}
    /\ (AllArrived /\ delivered = <<>>) =>
          /\ AsmIsFinished(Asm, current_message_id)
          /\ AsmNext(Asm).out = Some(<< sent_payload, ScriptHead.id >>)
    /\ delivered # <<>> =>
          /\ AllArrived
          /\ Len(delivered) = 1
          /\ delivered[1].bodies = sent_payload
          /\ delivered[1].id = ScriptHead.id

\* C5 witness: a message of three or more bodies with a short last body, whose
\* head arrived last, has been returned by next()
PermutationWitness ==
    /\ Len(delivered) = 1
    /\ last_call.op = "next" /\ last_call.after = "head"
    /\ ScriptHead.body_count = 3
    /\ VecLen(delivered[1].bodies) = 2 * MAX_PACKET_PAYLOAD_SIZE + 4

(***************************************************************************)
(* SpecHostile: a fresh assembler and a remote that sends any segments.    *)
(***************************************************************************)
\* message ids: the cursor's, its successor's, and the first one past the
\* window of MARGIN_OF_OUT_OF_ORDER_ALLOWED ids
HostileIds == { 0, 1, MARGIN_OF_OUT_OF_ORDER_ALLOWED }

HostileHeads(id) ==
    { HeadSegment(id, 1, FALSE), HeadSegment(id, 2, FALSE), HeadSegment(id, 1, TRUE),
      HeadSegment(id, MAX_BODIES_PER_MESSAGE + 1, FALSE) }

HostileBodies(id) ==
    { BodySegment(id, 0, <<>>),
      BodySegment(id, 0, Fill(9, MAX_PACKET_PAYLOAD_SIZE + 1)),
      BodySegment(id, 0, Fill(1, 1)),
      BodySegment(id, 0, Fill(2, 4)),
      BodySegment(id, 0, Fill(3, MAX_PACKET_PAYLOAD_SIZE)),
      BodySegment(id, 1, Fill(4, 1)),
      BodySegment(id, 1, Fill(5, MAX_PACKET_PAYLOAD_SIZE)),
      BodySegment(id, MAX_BODIES_PER_MESSAGE, Fill(6, 1)),
      BodySegment(id, MAX_BODIES_PER_MESSAGE, Fill(7, MAX_PACKET_PAYLOAD_SIZE)) }

HostileSegments == UNION { HostileHeads(id) \cup HostileBodies(id) : id \in HostileIds }

InitHostile ==
    /\ AsmInit(MessageAssemblerDefault, << >>)
    /\ sent_payload = << >>
    /\ IdleExcept({"asm"})

InjectHostile == Inject(HostileSegments)

NextHostile == InjectHostile \/ CallNext

SpecHostile == InitHostile /\ [][NextHostile]_vars

\* the step is a head() or body() call
IsSegmentCall == calls' = calls + 1

\* the slot of message_id when it lies in the reassembly window, else 0
WindowSlot(asm, message_id) ==
    IF EntryIndex(asm, message_id) < MARGIN_OF_OUT_OF_ORDER_ALLOWED
    THEN EntryIndex(asm, message_id) + 1
    ELSE 0

\* C4: the successful next() calls return the ids 0, 1, 2, .. in turn, and
\* each returned payload was assembled from the segments sent under the id it
\* is returned with, and from no other message's segments.
AssemblerDeliversInOrder ==
    \A i \in 1..Len(delivered) :
        /\ delivered[i].id = (i - 1) % U16
        /\ delivered[i].origin = { delivered[i].id }

\* C6: a head() or body() call that is rejected empties the slot of its own
\* message id and changes no other slot and not the cursor.
RejectedCallIsIsolated ==
    [][ (IsSegmentCall /\ last_call'.outcome = "dropped") =>
          /\ current_message_id' = current_message_id
          /\ \A pos \in 1..MARGIN_OF_OUT_OF_ORDER_ALLOWED :
                IF pos = WindowSlot(Asm, last_call'.id)
                THEN pending_messages'[pos] = None
                ELSE pending_messages'[pos] = pending_messages[pos] ]_vars

\* C8: a head() or body() call for an id outside the window of
\* MARGIN_OF_OUT_OF_ORDER_ALLOWED ids from the cursor changes no slot and not the
\* cursor.
OutOfWindowIsIgnored ==
    [][ (IsSegmentCall /\ WindowSlot(Asm, last_call'.id) = 0) =>
          /\ current_message_id' = current_message_id
          /\ pending_messages' = pending_messages ]_vars

\* C9: a body() call with index >= MAX_BODIES_PER_MESSAGE for an id inside the
\* window is rejected (the slot is emptied); it does not panic.
BodyIndexIsBounded ==
    (/\ last_call.op = "body"
     /\ last_call.index >= MAX_BODIES_PER_MESSAGE
     /\ WindowSlot(Asm, last_call.id) # 0)
    => (/\ ~asm_panicked
        /\ last_call.outcome = "dropped"
        /\ pending_messages[WindowSlot(Asm, last_call.id)] = None)

\* C10: in every slot total_bodies is at most MAX_BODIES_PER_MESSAGE and bodies
\* holds at most MAX_BODIES_PER_MESSAGE * MAX_PACKET_PAYLOAD_SIZE bytes.
ReassemblyMemoryIsBounded ==
    \A pos \in 1..Len(pending_messages) :
        IsSome(pending_messages[pos]) =>
            LET entry == Unwrap(pending_messages[pos])
            IN /\ IsSome(entry.total_bodies) =>
                      Unwrap(entry.total_bodies) <= MAX_BODIES_PER_MESSAGE
               /\ VecLen(entry.bodies) <= MAX_BODIES_PER_MESSAGE * MAX_PACKET_PAYLOAD_SIZE

(***************************************************************************)
(* SpecLyingHead: the "lying head" scenario.  For id 0 four bodies of MAX  *)
(* bytes and a head declaring one body arrive; for id 1 a head declaring   *)
(* one body and that body.  The sender then sends id 0 again as the        *)
(* one-body message its head declares.  Arrival order is free.             *)
(***************************************************************************)
LyingBodies == WellFormedBodies(0, 4, MAX_PACKET_PAYLOAD_SIZE)

LyingHead == HeadSegment(0, 1, FALSE)

SecondHead == HeadSegment(1, 1, FALSE)

SecondBody(last_len) == BodySegment(1, 0, Fill(9, last_len))

InitLyingHead ==
    \E last_len \in LastLens :
        LET segs == LyingBodies \cup { LyingHead, SecondHead, SecondBody(last_len) }
            resent == { LyingHead, BodyAt(LyingBodies, 0) }
        IN /\ AsmInit(MessageAssemblerDefault,
                      [seg \in segs |-> IF seg \in resent THEN 2 ELSE 1])
           /\ sent_payload = SecondBody(last_len).data
           /\ IdleExcept({"asm"})

NextLyingHead == Deliver \/ CallNext

SpecLyingHead == InitLyingHead /\ [][NextLyingHead]_vars

SecondArrived ==
    /\ pool[SecondHead] = 0
    /\ \A seg \in DOMAIN pool : (seg.kind = "body" /\ seg.id = 1) => pool[seg] = 0

\* the head declaring one body was rejected against the bodies already held, and
\* nothing is held for id 0 since
LyingHeadDropped ==
    /\ << 0, "head" >> \in dropped_calls
    /\ current_message_id = 0
    /\ pending_messages[1] = None

\* C7 as stated: once the lying head has emptied id 0's slot and the head and
\* body of id 1 have arrived, next() returns id 1's body as id 1, with nothing
\* more received for id 0.
LyingHeadNextIdDelivered ==
    (LyingHeadDropped /\ SecondArrived /\ last_call.op = "next")
    => last_call.out = Some(<< sent_payload, 1 >>)

\* C7 as amended: the lying head empties only id 0's slot; while id 0 is
\* missing next() returns nothing, id 1's message stays complete in its slot,
\* and next() returns it as id 1 only after id 0 has arrived again in full and
\* has been returned.
LyingHeadBlocksUntilResent ==
    /\ \A i \in 1..Len(delivered) : delivered[i].id = i - 1
    /\ (LyingHeadDropped /\ last_call.op = "next") => last_call.out = None
    /\ (SecondArrived /\ Len(delivered) < 2) =>
          /\ AsmIsFinished(Asm, 1)
          /\ Unwrap(pending_messages[WindowSlot(Asm, 1)]).bodies = sent_payload
    /\ Len(delivered) >= 2 =>
          /\ delivered[2].bodies = sent_payload
          /\ delivered[2].origin = { 1 }

\* C7 witness: the lying head was rejected, id 0 arrived again and was
\* returned, and then id 1 was returned
LyingHeadWitness ==
    /\ << 0, "head" >> \in dropped_calls
    /\ Len(delivered) = 2
    /\ delivered[2].id = 1
    /\ pool[LyingHead] = 0

(***************************************************************************)
(* SpecTransport: one connection of a node with the shared handshake and   *)
(* transport maps.  The remote side is free to send any packet of Packets  *)
(* in any order; handshake_continue runs beside the reader.                *)
(***************************************************************************)
InitTransport ==
    /\ \E start \in { "handshaking", "reading" } : TransInit(start)
    /\ IdleExcept({"trans"})

NextTransport ==
    \/ AnonymousHandshake
    \/ ReadPacket
    \/ ConnectionEnds
    \/ ContinueHandshake
    \/ InstallTransport
    \/ InitiateChannel
    \/ WriteSegments
    \/ ReadMessage

SpecTransport == InitTransport /\ [][NextTransport]_vars

\* C16: in every reachable state no key has an entry in both
\* handshake_tracker and transport_tracker; a Handshake packet from a key that
\* has a transport state creates no handshake entry beside it
HandshakeAndTransportExclusive ==
    \A key \in Keys :
        ~(IsSome(handshake_tracker[key]) /\ IsSome(transport_tracker[key]))

\* C17: a transport state is only ever filed under the key that the finished
\* handshake's remote static key names; a step that finds a mismatch removes
\* the handshake entry and leaves transport_tracker as it was
IdentityBinding ==
    [][ /\ \A key \in Keys :
             IsSome(transport_tracker'[key]) => Unwrap(transport_tracker'[key]).remote = key
        /\ last_step'.outcome = "mismatch" =>
             /\ handshake_tracker'[last_step'.key] = None
             /\ transport_tracker' = transport_tracker ]_vars

\* C17 witness: a handshake with a foreign static key has just been thrown
\* away while another key's handshake had completed and was installed
IdentityBindingWitness ==
    /\ last_step.outcome = "mismatch"
    /\ last_step.key \in PeerKeys
    /\ \E key \in PeerKeys : IsSome(transport_tracker[key])

\* C18: a read of a packet with source == own key or destination ==
\* Some(source), by the reader or by the anonymous handshake, drops the packet
\* and changes neither map
GuardedPacketIsDropped ==
    [][ (last_step'.task \in { "reader", "anon" } /\ last_step'.guarded) =>
          /\ last_step'.outcome = "discarded"
          /\ handshake_tracker' = handshake_tracker
          /\ transport_tracker' = transport_tracker ]_vars

\* C20: after a segment that failed to open or to decode the reader is still
\* running and the source still has its transport state
PacketErrorKeepsSession ==
    last_step.outcome \in { "open_failed", "decode_failed" } =>
        /\ conn = "reading"
        /\ IsSome(transport_tracker[last_step.key])

(***************************************************************************)
(* SpecRouter: the router routing packets while peers connect and their    *)
(* connections end.                                                        *)
(***************************************************************************)
InitRouter ==
    /\ RouterInit
    /\ IdleExcept({"router"})

NextRouter ==
    \/ RoutePacket
    \/ SelectionIteration
    \/ PeerConnects
    \/ WriterEnds

SpecRouter == InitRouter /\ [][NextRouter]_vars

\* the only peer with a write channel is the origin of the packet in hand
OnlyForwarderIsOrigin ==
    /\ IsSome(router.origin)
    /\ \A peer \in Peers :
         request_write_packet[peer] # "none" <=> Some(peer) = router.origin

\* C19: none of the first five iterations of the selection loop sends the
\* packet into the write channel of its origin
LoopbackGuard ==
    (route_log.result \in { "sent", "send_failed" } /\ route_log.canidate = router.origin)
        => route_log.iteration > 5

\* C19 witness: the packet went back to its origin, its only forwarder, after
\* the origin had been picked and passed over in an earlier iteration
LoopbackGuardWitness ==
    /\ OnlyForwarderIsOrigin
    /\ route_log.result = "sent"
    /\ route_log.canidate = router.origin
    /\ router.refused > 0

\* C25: the packet goes back to its origin only after five selections of the
\* origin were refused by the no-send-back rule; iterations without a
\* candidate do not count
LiftedAfterFiveRefusals ==
    (route_log.result = "sent" /\ route_log.canidate = router.origin)
        => router.refused >= 5

\* The router with the fairness its loop has: an iteration in progress ends
\* (the waits are bounded by the 10 ms sleep), so the loop keeps iterating.
SpecRouterLive == SpecRouter /\ WF_vars(SelectionIteration)

\* C26: a packet in the selection loop is eventually enqueued on the write
\* channel of a peer other than its origin, if such a peer stays connected
RouterLiveness ==
    \A peer \in Peers :
        (router.pc = "loop" /\ request_write_packet[peer] = "open" /\ Some(peer) # router.origin)
            ~> (\/ route_log.result = "sent" /\ route_log.canidate # router.origin
                \/ request_write_packet[peer] # "open")

\* C28: an iteration whose send fails removes the entry of the chosen peer and
\* no other, and the packet stays in the selection loop
FailedSendRemovesEntryAndRetries ==
    [][ (router' # router /\ route_log'.result = "send_failed") =>
          /\ request_write_packet' =
               [request_write_packet EXCEPT ![Unwrap(route_log'.canidate)] = "none"]
          /\ router'.pc = "loop"
          /\ router'.origin = router.origin ]_vars

\* C28 witness: a packet whose send through one peer failed was then sent
\* through another selection
FailedSendWitness ==
    /\ route_log.result = "sent"
    /\ router.failed_send

\* C21: after handle_message was given one of the reserved variants the
\* channel reader is still running
ReservedMessagesAreIgnored ==
    (last_step.task = "channel" /\ last_step.outcome = "unimplemented")
        => channel_reader = "running"

\* C29: no step sends the router a packet without a destination
NoAnonymousRouteRequest == last_step.routed # Some(None)

\* C29 witness: the reader passed an inbound packet for another node to the
\* router
RouteRequestWitness ==
    /\ last_step.task = "reader"
    /\ IsSome(last_step.routed)
    /\ Unwrap(last_step.routed) \in { Some(key) : key \in PeerKeys }

\* C30: once channel_initiator has sent the first handshake message to a
\* node, handshake_tracker holds an initiator state for that node
InitiationIsTracked ==
    last_step.outcome = "initiated" =>
        /\ IsSome(handshake_tracker[last_step.key])
        /\ Unwrap(handshake_tracker[last_step.key]).role = "initiator"

(***************************************************************************)
(* SpecScoreKeeper: score keepers built by insert(), and best() on them.   *)
(***************************************************************************)
InitScoreKeeper ==
    /\ ScoreInit
    /\ IdleExcept({"score"})

NextScoreKeeper ==
    \/ InsertEvent
    \/ CallBest

SpecScoreKeeper == InitScoreKeeper /\ [][NextScoreKeeper]_vars

\* C27: best() returns a peer of the score keeper whose sum of event scores
\* (time_taken, negated when failed) no other peer's sum exceeds, and None
\* only for an empty score keeper
BestIsMaximal ==
    IsSome(best_out) =>
        IF Tracked(score_keeper) = { } THEN Unwrap(best_out) = None
        ELSE /\ IsSome(Unwrap(best_out))
             /\ Unwrap(Unwrap(best_out)) \in Tracked(score_keeper)
             /\ \A other \in Tracked(score_keeper) :
                  SumScores(score_keeper[other])
                      <= SumScores(score_keeper[Unwrap(Unwrap(best_out))])

\* C27 witness: with p1 at +1 and p2 at -1, best() returned p1
BestWitness ==
    /\ SumScores(score_keeper["p1"]) = 1
    /\ score_keeper["p2"] # << >>
    /\ SumScores(score_keeper["p2"]) = -1
    /\ best_out = Some(Some("p1"))

(***************************************************************************)
(* SpecSetup: the accepter and the connection initiator setting up         *)
(* connections to the peers, and the sessions ending.                      *)
(***************************************************************************)
InitSetup ==
    /\ \E is_anonymous \in BOOLEAN : SetupInit(is_anonymous)
    /\ IdleExcept({"setup"})

NextSetup ==
    \/ CheckConnected
    \/ Register
    \/ StartSession
    \/ SessionEnds
    \/ SessionPanics

SpecSetup == InitSetup /\ [][NextSetup]_vars

\* C22: whatever the interleaving of the calls for a peer, at most one
\* session of the peer is running at any time
OneSessionPerPeer ==
    \A peer \in Peers : sessions[peer] <= 1

\* C23: a peer without a session, and with no call setting one up, is in
\* neither peer_tracker nor request_write_packet, and the connection
\* initiator is still serving
DeregisteredAfterSession ==
    /\ finalizing["initiator"].at # "panicked"
    /\ \A peer \in Peers :
         (sessions[peer] = 0 /\ InProgress(peer) = { }) =>
             /\ peer \notin peer_tracker
             /\ request_write_packet[peer] = "none"

(***************************************************************************)
(* SpecIpc: clients of the IPC socket listening and leaving.               *)
(***************************************************************************)
InitIpc ==
    /\ IpcInit
    /\ IdleExcept({"ipc"})

NextIpc ==
    \/ Listen
    \/ ConnectionListener
    \/ ClientLeaves

SpecIpc == InitIpc /\ [][NextIpc]_vars

\* C24: at most one connected client holds an accepted Listen for an
\* application id
OneClaimantPerApplication ==
    \A application_id \in ApplicationIds :
        Cardinality({ client \in Clients : << client, application_id >> \in claims }) <= 1

(***************************************************************************)
(* MessageAssembler::next and the cursor (channel/assembler.rs:190-207).   *)
(***************************************************************************)
\* the step is a next() call that dequeues the slot at the cursor
NextDequeues ==
    /\ calls' = calls
    /\ last_call'.op = "next"
    /\ AsmIsFinished(Asm, current_message_id)
    /\ pending_messages' = Tail(pending_messages) \o << None >>

\* C35: whenever next() dequeues the slot at the cursor, also when the LZ4
\* decompression of that message fails and None is returned, the cursor
\* current_message_id advances by exactly one (mod 2^16), so the ring and the
\* cursor stay aligned.
DequeueAdvancesCursor ==
    [][ NextDequeues => current_message_id' = (current_message_id + 1) % U16 ]_vars

(***************************************************************************)
(* MessageDisassembler::message and the trackers of earlier messages       *)
(* (channel/disassembler.rs:44-77).                                        *)
(***************************************************************************)
\* C37: a message() call never stores its tracker under the id of a message
\* that is still tracked: two messages enqueued while the first is outstanding
\* get different ids and the earlier tracker stays in the map.
MessageKeepsOutstandingTrackers ==
    [][ Len(enqueued') = Len(enqueued) + 1 =>
          /\ returned_ids'[Len(returned_ids')] \notin DOMAIN packets
          /\ \A id \in DOMAIN packets :
                id \in DOMAIN packets' /\ packets'[id].payload = packets[id].payload ]_vars

(***************************************************************************)
(* SpecDriver: the scan of handshake_continue beside one connection.  The  *)
(* shared handshake_tracker may already hold the entries that the readers  *)
(* of other connections made of a first handshake message; this           *)
(* connection's remote sends handshake packets addressed to this node, or  *)
(* nothing.                                                                *)
(***************************************************************************)
\* a responder state that has read the first message
FirstRead == HsRead(NewHandshake("responder"), HandshakeData(1, "", TRUE)).hs

\* the entries other connections can have left
EarlierHandshakes ==
    { tracker \in [Keys -> { None, Some(FirstRead) }] : tracker[OwnKey] = None }

HandshakePackets ==
    { packet \in Packets :
        /\ packet.data.kind = "handshake"
        /\ packet.source \in PeerKeys
        /\ packet.destination = Some(OwnKey) }

InitDriver ==
    /\ \E start \in { "handshaking", "reading" }, handshakes \in EarlierHandshakes :
         TransInitWith(start, handshakes, [key \in Keys |-> None])
    /\ DriverInit
    /\ IdleExcept({"trans", "driver"})

ReadHandshake == ReadFrom(HandshakePackets)

NextDriver ==
    \/ AnonymousHandshake
    \/ ReadHandshake
    \/ ScanEntry
    \/ TickEnds
    \/ InstallTransport

SpecDriver == InitDriver /\ [][NextDriver]_vars

\* the task of handshake_continue is never starved, its sends and map
\* operations complete, and no entry is passed over by the scans for ever
SpecDriverLive ==
    /\ SpecDriver
    /\ \A source \in Keys : SF_vars(Scan(source))
    /\ WF_vars(TickEnds)
    /\ WF_vars(InstallTransport)

\* C31: every entry put into handshake_tracker is eventually promoted to a
\* transport state or removed, also when the remote never sends the next
\* handshake message: no entry stays in the map forever.
HandshakeEntriesEnd ==
    \A key \in Keys : IsSome(handshake_tracker[key]) ~> (handshake_tracker[key] = None)

\* the entry is finished or it is this side's turn
Due(entry) ==
    IsSome(entry) /\ (IsHandshakeFinished(Unwrap(entry)) \/ IsMyTurn(Unwrap(entry)))

\* the step is a pass of the while loop that ends in a break
ScanBreaks ==
    /\ last_step'.task = "continue"
    /\ last_step'.outcome \in Breaks
    /\ handshake_tracker' # handshake_tracker

\* C32: in a single tick every entry whose turn it is gets its next message
\* written and sent and every finished entry is promoted, whether or not
\* another entry was promoted or failed earlier in the same scan: when the
\* scan is over, no entry that was due has been left out.
EveryDueEntryServiced ==
    [][ ScanBreaks =>
          \A key \in Keys \ (scanned \cup { last_step'.key }) :
              ~Due(handshake_tracker[key]) ]_vars

\* the packet is one anonymous_handshake accepts: a Handshake packet for this
\* node that is the second message of the session
AnonymousAccepts(packet) ==
    /\ packet.destination = Some(OwnKey)
    /\ packet.data.kind = "handshake"
    /\ packet.data.valid
    /\ packet.data.msg = 2

NoGuardAcrossChannel == last_step.holding = ""

(***************************************************************************)
(* SpecFraming: a framed stream reader.  The remote sends one or two       *)
(* packets back to back; the stream delivers their bytes in reads of any   *)
(* size.                                                                   *)
(***************************************************************************)
\* the packets on the stream: a first handshake message (32 bytes), and a
\* sealed segment long enough for its length to take three bytes
FramedPackets ==
    { WirePacket("A", None, 0, 32), WirePacket("A", Some(OwnKey), 1, 300) }

\* bound: the number of packets the remote sends
MaxPackets == 2

\* what the remote sends, in order
Sent == UNION { [1..n -> FramedPackets] : n \in 1..MaxPackets }

\* the bytes of a sequence of packets
RECURSIVE EncodeAll(_)
EncodeAll(sent) ==
    IF sent = << >> THEN << >> ELSE Cat(EncodePacket(Head(sent)), EncodeAll(Tail(sent)))

InitFraming ==
    /\ \E sent \in Sent : FramingInit(EncodeAll(sent))
    /\ IdleExcept({"framing"})

NextFraming == Arrive \/ Decode

SpecFraming == InitFraming /\ [][NextFraming]_vars

\* the buffer holds the first bytes of an encoded packet, but not all of them
IsProperPrefix(buf) ==
    /\ buf # << >>
    /\ \E packet \in FramedPackets :
         /\ VecLen(buf) < VecLen(EncodePacket(packet))
         /\ buf = Take(EncodePacket(packet), VecLen(buf))

\* the step is a call of decode
DecodeCalled == decode_last'.op = "decode" /\ decode_last'.before = src

\* C36: a decode call on a buffer that holds only a proper prefix of an
\* encoded packet returns Ok(None) and leaves the buffered bytes unchanged,
\* so that the packet is decoded once the remaining bytes have arrived.
ShortReadKeepsBuffer ==
    [][ (DecodeCalled /\ IsProperPrefix(src)) =>
          (decode_last'.result = "none" /\ src' = src) ]_vars

(***************************************************************************)
(* SpecWriter: the channel writer task.  Write requests and status updates *)
(* for the two peers arrive in any order; a peer has a transport state or  *)
(* not, as the handshakes before have left it.                             *)
(***************************************************************************)
\* bound: the number of write requests
MaxWrites == 2

\* the transport states that can be there when the writer runs
Transports ==
    { tracker \in [Keys -> { None }
                             \cup { Some([ remote |-> key ]) : key \in PeerKeys }] :
        \A key \in Keys : IsSome(tracker[key]) => key = Unwrap(tracker[key]).remote }

InitWriter ==
    /\ \E transports \in Transports :
         TransInitWith("reading", [key \in Keys |-> None], transports)
    /\ WriterInit
    /\ IdleExcept({"trans", "writer"})

WriteRequest ==
    /\ Len(callbacks) < MaxWrites
    /\ HandleWriteMessage({ RequestPeerSuggestion, ConnectionClose(3) })

StatusUpdate == HandleUpdateMessageStatus(0..1, { { }, { << 0, 0 >> } })

NextWriter == WriteRequest \/ StatusUpdate \/ Wakeup

SpecWriter == InitWriter /\ [][NextWriter]_vars

\* C38: a step of the writer for one destination (a write request that
\* registers a callback, or a status update) never fires, discards or replaces
\* the notify_sent of a message sent to a different destination: a callback
\* changes state only in a step for the destination of its own message.
CallbackIsolation ==
    [][ \A request \in 1..Len(callbacks) :
          callbacks'[request].state # callbacks[request].state =>
              writer_last'.destination = callbacks[request].destination ]_vars

\* the disassembler of the node holds messages, none of them confirmed
HasUnconfirmed(disassemblers, node) ==
    /\ IsSome(disassemblers[node])
    /\ DOMAIN Unwrap(disassemblers[node]).packets # { }
    /\ \A message_id \in DOMAIN Unwrap(disassemblers[node]).packets :
          ~DisIsMessageConfirmed(Unwrap(disassemblers[node]), message_id)

\* C39: the writer never emits a MessageSegment packet for a destination
\* without a transport state; in that case the message stays queued and a
\* channel initiation is requested, and with a transport state the segments
\* of the queued message are emitted.
SegmentsNeedTransport ==
    [][ /\ \A emitted \in writer_last'.emitted : IsSome(transport_tracker[emitted[1]])
        /\ \A node \in PeerKeys :
              HasUnconfirmed(message_disassemblers', node) =>
                  IF IsSome(transport_tracker[node])
                  THEN \E emitted \in writer_last'.emitted : emitted[1] = node
                  ELSE node \in writer_last'.initiated ]_vars

(***************************************************************************)
(* SpecConnections: handle_message on the ConnectionClose and              *)
(* ConnectionData messages of two nodes, over every content the map of     *)
(* data channels can have.                                                 *)
(***************************************************************************)
InitConnections ==
    /\ \E map \in ConnectionMaps : ConnectionsInit(map)
    /\ IdleExcept({"connections"})

NextConnections == HandleConnectionClose \/ HandleConnectionData

SpecConnections == InitConnections /\ [][NextConnections]_vars

====
